---- MODULE Spec2Model ----
(***************************************************************************)
(* Model of the translate cog (src/translate): the two bounded caches of   *)
(* GoogleTranslator, detect_language / translate_text with their           *)
(* suspension points (the HTTP request, the config reads of StatsCounter), *)
(* the usage counters in memory and in the config store, the language      *)
(* resolved from a detection response, the reaction listener with the      *)
(* cooldown of messages, the owner's cooldown commands and the periodic    *)
(* task that drops the markers and saves the counters, the usage summary,  *)
(* the three handlers that translate a message, the cancellation of a      *)
(* call, the embed of a translation and the unload of the cog.             *)
(*                                                                         *)
(* Every task or handler is one coroutine.  A step is the code between two *)
(* awaits: the event loop never interleaves inside a step, and may         *)
(* interleave any other coroutine between two steps.  A read of the config *)
(* store returns what the store holds when the coroutine resumes.          *)
(***************************************************************************)
EXTENDS Integers, Sequences, FiniteSets, TLC

VARIABLES
    phase,              \* "constructed" (after __init__), "loaded" (after cog_load),
                        \* "unloading" (in cog_unload) or "unloaded" (after it)
    api_token,          \* GoogleTranslator._api_token
    detection_cache,    \* GoogleTranslator._detection_cache, in insertion order
    translation_cache,  \* GoogleTranslator._translation_cache, in insertion order
    global_counter,     \* StatsCounter._global_counter ({} until loaded)
    guild_counter,      \* StatsCounter._guild_counter: guild id -> counts
    config_count,       \* config store: global "count"
    config_guild_count, \* config store: per guild "count"
    pc,                 \* per task: where its coroutine is suspended
    call,               \* per task: the arguments and locals of its call
    clock,              \* history: number of calls started and cache writes done
    data_detections,    \* data["data"]["detections"] of a response: DetectLanguageResponse.detections
    language,           \* what DetectLanguageResponse.language returned for it
    translations,       \* Translate.cache["translations"]: message ids
    cooldown_translations, \* Translate.cache["cooldown_translations"]: message id -> state
    cache_cooldown,     \* Translate.cache["cooldown"] ({} until loaded)
    config_cooldown,    \* config store: global "cooldown"
    time,               \* time.time(), in seconds
    loop,               \* translation_loop: "running", or "failed" once its body raised
    save,               \* the save() of the running iteration of translation_loop
    hpc,                \* per reaction handler: where its coroutine is suspended
    reaction,           \* per reaction handler: the payload and the locals
    cmd,                \* the owner's [p]translateset multiple / timeout command
    triggered,          \* history: the handlers that stored a state since the loop last ran
    summary,            \* the call of StatsCounter.text: where it is suspended, what it read
    event,              \* the handler that translates one message: its kind, position, outcome
    closing,            \* cog_unload: the save() of GoogleTranslator.close
    embed,              \* TranslateTextResponse.embed: its arguments and what it built
    config_whitelist,   \* config store: the "whitelist" of the guild
    config_blacklist,   \* config store: the "blacklist" of the guild
    guild_whitelist,    \* Translate.cache["guild_whitelist"]: the entry of the guild
    guild_blacklist,    \* Translate.cache["guild_blacklist"]: the entry of the guild
    check,              \* the call of check_bw_list of a reaction in the guild
    listcmd             \* the allowlist / blocklist add / remove command

\* the translator, its counters and the tasks calling it
tvars == <<phase, api_token, detection_cache, translation_cache, global_counter,
           guild_counter, config_count, config_guild_count, pc, call, clock>>
\* the response whose language is resolved
lvars == <<data_detections, language>>
\* the cooldown state of the cog and the reaction handlers
cvars == <<translations, cooldown_translations, cache_cooldown, config_cooldown,
           time, hpc, reaction, cmd, triggered>>
\* the periodic task
pvars == <<loop, save>>
\* the usage summary, the handler of one message, the unload and the embed
hvars == <<summary, event, closing, embed>>

\* the allow and block lists of a guild, their check and their commands
bvars == <<config_whitelist, config_blacklist, guild_whitelist, guild_blacklist,
           check, listcmd>>

vars == <<tvars, lvars, cvars, pvars, hvars, bvars>>

----------------------------------------------------------------------------
(* Bounds of the model *)

\* capacity of each cache; the program sets 128 (api.py:52), the model scales it down
cache_limit == 2

\* the tasks: each is one coroutine that runs one call.  Spec runs two of them
\* on every input below; SpecCache runs three on the inputs that fill a cache
CacheTasks == {1, 2, 3}
Tasks == {1, 2}

----------------------------------------------------------------------------
(* Values *)

\* Python's None for optional strings, and the absent guild (guild ids are positive)
None == "None"
NoGuild == 0

\* an optional value: <<>> is None, <<v>> is v
Nothing == <<>>
Some(v) == <<v>>

\* texts are sequences of code points
Texts == {<<1>>, <<3>>, <<1, 2>>}
\* the texts of the calls that fill the caches: four with three fingerprints for
\* detection, two for translation (whose keys also differ by target)
CacheTexts == Texts \cup {<<2>>}
CacheTranslateTexts == {<<1>>, <<3>>}

Guilds == {1, 2}
\* the guild argument of the modelled calls: none, or the guild not yet in memory
CallGuilds == {NoGuild, 2}
\* the guilds that already have data in the config store when the cog loads
StoredGuilds == {1}

Tokens == {"", "key"}
Targets == {"en", "es"}
Sources == {None, "sr-Latn"}

ErrorMessages == {"Daily Limit Exceeded", "API key not valid"}
TokenMissing == "The API token is missing."

ZeroCount == [characters |-> 0, requests |-> 0, detect |-> 0]
PriorCount == [characters |-> 5, requests |-> 2, detect |-> 1]
EmptyDict == <<>>

\* what the detection endpoint may answer with status 200 and no error
DetectPayloads ==
    { <<>>,
      <<[language |-> "es", isReliable |-> FALSE, confidence |-> 4],
        [language |-> "en", isReliable |-> TRUE, confidence |-> 9]>> }

\* a detection of a romanized language: the code carries the script
LatnPayloads ==
    { <<[language |-> "sr-Latn", isReliable |-> TRUE, confidence |-> 9]>> }

\* what the translation endpoint may answer with status 200 and no error
TranslatePayloads ==
    { <<[detected_source_language |-> None, model |-> None, translated_text |-> "hola"]>>,
      <<[detected_source_language |-> "en", model |-> "nmt", translated_text |-> "salut"]>> }

\* the detections a response may carry: up to MaxDetections candidates, the
\* confidence in tenths (0 is 0.0, 9 is 0.9)
MaxDetections == 3
Confidences == {0, 4, 9}
Candidates ==
    [language : {"es", "en", "fr"}, isReliable : {FALSE}, confidence : Confidences]
DetectionLists ==
    UNION {[1..n -> Candidates] : n \in 0..MaxDetections}

\* the reaction handlers, each one coroutine handling one reaction, and the
\* messages reacted to
Handlers == {1, 2}
Messages == {1, 2}

\* FLAGS: flag emoji -> language code (the "code" of the flag's entry)
FLAGS == [e \in {":flag_gb:", ":flag_es:"} |-> IF e = ":flag_gb:" THEN "en" ELSE "es"]

\* the timeouts the owner sets, in seconds, and the last second of the model
Timeouts == {0, 1}
MaxTime == 1

\* the registered default of the global "cooldown" (translate.py:56)
DefaultCooldown == [past_flags |-> <<>>, timeout |-> 0, multiple |-> FALSE]

----------------------------------------------------------------------------
(* Pure functions *)

RECURSIVE SumSeq(_)
SumSeq(s) == IF s = <<>> THEN 0 ELSE Head(s) + SumSeq(Tail(s))

\* hash(text): a fingerprint, equal for equal texts, with collisions
Hash(text) == SumSeq(text)

Keys(cache) == {cache[i].key : i \in 1..Len(cache)}

Contains_Never(cache, key) == FALSE

\* key in cache
Contains(cache, key) == key \in Keys(cache)

GetItem(cache, key) ==
    cache[CHOOSE i \in 1..Len(cache) : cache[i].key = key].value

\* a lookup (key in cache, cache[key]) leaves an OrderedDict as it is
AfterGet_Pop(cache, key) == SelectSeq(cache, LAMBDA e : e.key # key)

AfterGet(cache, key) == cache

\* the mapping with key set to value, in insertion order
Stored(cache, key, value) ==
    IF key \in Keys(cache)
    THEN [i \in 1..Len(cache) |->
            IF cache[i].key = key THEN [key |-> key, value |-> value] ELSE cache[i]]
    ELSE Append(cache, [key |-> key, value |-> value])

SetItem_Unbounded(cache, max_len, key, value) == Stored(cache, key, value)

SetItem_PopLast(cache, max_len, key, value) ==
    LET stored == Stored(cache, key, value)
    IN IF max_len > 0 /\ Len(stored) > max_len
       THEN SubSeq(stored, 1, Len(stored) - 1)
       ELSE stored

SetItem_MoveToEnd(cache, max_len, key, value) ==
    LET stored == Append(SelectSeq(cache, LAMBDA e : e.key # key),
                         [key |-> key, value |-> value])
    IN IF max_len > 0 /\ Len(stored) > max_len THEN Tail(stored) ELSE stored

\* FixedSizeOrderedDict.__setitem__: OrderedDict.__setitem__ keeps the position of
\* a key that is present and appends a new one; then popitem(False) drops the first
SetItem(cache, max_len, key, value) ==
    LET stored == Stored(cache, key, value)
    IN IF max_len > 0 /\ Len(stored) > max_len THEN Tail(stored) ELSE stored

\* the key that SetItem drops, if any (history only)
Evicted(cache, max_len, key) ==
    IF key \notin Keys(cache) /\ max_len > 0 /\ Len(cache) + 1 > max_len
    THEN Some(cache[1].key)
    ELSE Nothing

\* DetectLanguageResponse.language: the loop over the detections, from index i on
RECURSIVE LanguageFrom(_, _, _, _)
LanguageFrom(detections, i, conf, ret) ==
    IF i > Len(detections) THEN ret
    ELSE IF detections[i].confidence > conf
         THEN LanguageFrom(detections, i + 1, detections[i].confidence, Some(detections[i]))
         ELSE LanguageFrom(detections, i + 1, conf, ret)

Language(detections) == LanguageFrom(detections, 1, 0, Nothing)

\* a replace that leaves the string as it is
Replace_Nothing(s, old, new) == s

\* str.replace(old, new)
RECURSIVE Replace(_, _, _)
Replace(s, old, new) ==
    IF Len(s) < Len(old) THEN s
    ELSE IF SubSeq(s, 1, Len(old)) = old
         THEN new \o Replace(SubSeq(s, Len(old) + 1, Len(s)), old, new)
         ELSE SubSeq(s, 1, 1) \o Replace(SubSeq(s, 2, Len(s)), old, new)

\* the query parameters of the two requests (the key is the token in use)
DetectParams(text) == [q |-> text, target |-> None, source |-> None]

TranslateParams(target, text, from_lang) ==
    [q |-> text, target |-> target,
     source |-> IF from_lang # None THEN Replace(from_lang, "-Latn", "") ELSE None]

\* counts[field] += amount
Inc(counts, field, amount) == [counts EXCEPT ![field] = @ + amount]

\* d[k] = v on a dict
Put(d, k, v) == [x \in DOMAIN d \cup {k} |-> IF x = k THEN v ELSE d[x]]

----------------------------------------------------------------------------
(* Task records *)

Pending == [kind |-> "pending", value |-> Nothing]
Return(v) == [kind |-> "return", value |-> v]
\* raise GoogleTranslateAPIError(message)
Raise(message) == [kind |-> "GoogleTranslateAPIError", value |-> Some(message)]

\* op, text, target, from_lang, guild: the call and its arguments;
\* reqs: the GET requests the call has sent; params: their query parameters;
\* response: how the request ended; data: the body of a 200 response (the
\* result payload, or the message of its error object);
\* hit, evicted, started, ended: history of the call (cache hit, key its cache
\* write dropped, clock at its first step and at its return)
IdleCall ==
    [op |-> "none", text |-> <<>>, target |-> None, from_lang |-> None,
     guild |-> NoGuild, reqs |-> 0, params |-> Nothing, response |-> "none",
     data |-> Nothing, hit |-> FALSE, evicted |-> Nothing, result |-> Pending,
     started |-> 0, ended |-> 0]

NewCall(op, text, target, from_lang, guild) ==
    [IdleCall EXCEPT !.op = op, !.text = text, !.target = target,
                     !.from_lang = from_lang, !.guild = guild,
                     !.started = clock + 1]

\* the call c ends with result r at clock now
Finish(c, r, now) == [c EXCEPT !.result = r, !.ended = now]

\* a key of the translation cache without the source language
CacheKey_NoSource(c) ==
    IF c.op = "detect" THEN Hash(c.text)
    ELSE <<c.target, Hash(c.text)>>

\* cache_key of detect_language and of translate_text
CacheKey(c) ==
    IF c.op = "detect" THEN Hash(c.text)
    ELSE <<c.target, Hash(c.text), c.from_lang>>

\* what the call stores in its cache and returns, from the response it got:
\* detection.language, or the TranslateTextResponse
CacheValue(c) ==
    IF c.op = "detect" THEN Language(c.data[1]) ELSE Some(c.data[1])

\* the cache of the call's operation
CacheOf(c) == IF c.op = "detect" THEN detection_cache ELSE translation_cache

----------------------------------------------------------------------------
(* Initial state: after Translate.__init__, before cog_load.  The config    *)
(* store holds the counts of earlier runs: global, and of the stored guild. *)

InitTranslator ==
    /\ phase = "constructed"
    /\ api_token = None
    /\ detection_cache = <<>>
    /\ translation_cache = <<>>
    /\ global_counter = EmptyDict
    /\ guild_counter = EmptyDict
    /\ config_count = PriorCount
    /\ config_guild_count =
          [g \in Guilds |-> IF g \in StoredGuilds THEN PriorCount ELSE ZeroCount]
    /\ pc = [t \in CacheTasks |-> "idle"]
    /\ call = [t \in CacheTasks |-> IdleCall]
    /\ clock = 0

\* no response resolved yet
Unresolved == [resolved |-> FALSE, ret |-> Nothing]

InitLanguage ==
    /\ data_detections = <<>>
    /\ language = Unresolved

\* the locals of a reaction handler that has not started
IdleReaction ==
    [message |-> 0, emoji |-> None, outcome |-> "none", multiple |-> FALSE,
     accepted |-> FALSE, repeat |-> FALSE]

\* the global cooldown the config store may hold from earlier runs
StoredCooldowns ==
    {[DefaultCooldown EXCEPT !.timeout = s, !.multiple = b] : s \in Timeouts, b \in BOOLEAN}

\* Translate.__init__: the cache dict (translate.py:59-67), with the global
\* cooldown c in the config store
InitCooldownWith(c) ==
    /\ translations = {}
    /\ cooldown_translations = EmptyDict
    /\ cache_cooldown = EmptyDict
    /\ config_cooldown = c
    /\ time = 0
    /\ hpc = [h \in Handlers |-> "idle"]
    /\ reaction = [h \in Handlers |-> IdleReaction]
    /\ cmd = "idle"
    /\ triggered = {}

\* a store that holds the registered default
InitCooldown == InitCooldownWith(DefaultCooldown)

\* save() not running
IdleSave == [pc |-> "idle", keys |-> <<>>, size |-> 0]

\* Translate.__init__ starts translation_loop (translate.py:69)
InitLoop ==
    /\ loop = "running"
    /\ save = IdleSave

\* no summary asked for, no message being translated, the cog not unloading
\* stored: the counts of the guild came from the config store
IdleSummary == [pc |-> "idle", guild |-> NoGuild, gl_count |-> Nothing, count |-> Nothing,
                stored |-> FALSE]

IdleEvent == [kind |-> "none", stage |-> "idle", to_language |-> None, outcome |-> "none"]

NoEmbed == [from_language |-> None, to_language |-> None, requestor |-> None,
            named |-> {}, built |-> FALSE, footer |-> None, content |-> None]

\* the ids of what check_bw_list looks up: the channel, its category, the
\* member, a role of the member and the default role of the guild
ChannelId == 1
CategoryId == 2
MemberId == 3
RoleId == 4
DefaultRoleId == 5

\* no id: channel.category_id of a channel in no category is None
NoId == 0

\* the ids a list of the guild can hold
ListIds == {ChannelId, CategoryId, MemberId, RoleId, DefaultRoleId}

\* check_bw_list not running; n: the calls made so far
\* after: the call started when the list command had completed
IdleCheck == [pc |-> "idle", category |-> NoId, roles |-> {}, can_run |-> None,
              after |-> FALSE, n |-> 0]

\* no list command invoked
IdleListCmd == [pc |-> "idle", list |-> None, op |-> None, obj |-> NoId]

\* the registered default of both lists is [] (translate.py:51-52); the cache
\* has no entry of the guild (translate.py:65-66)
InitListsWith(whitelist, blacklist) ==
    /\ config_whitelist = whitelist
    /\ config_blacklist = blacklist
    /\ guild_whitelist = Nothing
    /\ guild_blacklist = Nothing
    /\ check = IdleCheck
    /\ listcmd = IdleListCmd

InitLists == InitListsWith(<<>>, <<>>)

InitViews ==
    /\ summary = IdleSummary
    /\ event = IdleEvent
    /\ closing = IdleSave
    /\ embed = NoEmbed

Init ==
    /\ InitTranslator /\ InitLanguage /\ InitCooldown /\ InitLoop /\ InitViews
    /\ InitLists

----------------------------------------------------------------------------
(* Actions *)

\* Translate.cog_load: the translator is created with the shared key and
\* StatsCounter.initialize loads the global counts and those of every stored guild
CogLoad(central_key) ==
    /\ phase = "constructed"
    /\ phase' = "loaded"
    /\ api_token' = central_key
    /\ detection_cache' = <<>>
    /\ translation_cache' = <<>>
    /\ global_counter' = config_count
    /\ guild_counter' = [g \in StoredGuilds |-> config_guild_count[g]]
    /\ UNCHANGED <<config_count, config_guild_count, pc, call, clock>>

\* on_red_api_tokens_update for service google_translate with an api_key
TokensUpdate(api_key) ==
    /\ phase = "loaded"
    /\ api_token' = api_key
    /\ UNCHANGED <<phase, detection_cache, translation_cache, global_counter,
                   guild_counter, config_count, config_guild_count, pc, call, clock>>

TokenIsMissing_NoneOnly == api_token = None

\* not self._api_token
TokenIsMissing == api_token = None \/ api_token = ""

\* the first step of detect_language / translate_text, up to the request:
\* the token check, the cache lookup, and the GET being sent
StartCall(t, c) ==
    /\ phase = "loaded"
    /\ pc[t] = "idle"
    /\ clock' = clock + 1
    /\ IF TokenIsMissing
       THEN /\ pc' = [pc EXCEPT ![t] = "done"]
            /\ call' = [call EXCEPT ![t] = Finish(c, Raise(TokenMissing), clock + 1)]
            /\ UNCHANGED <<detection_cache, translation_cache>>
       ELSE IF Contains(CacheOf(c), CacheKey(c))
       THEN /\ pc' = [pc EXCEPT ![t] = "done"]
            /\ call' = [call EXCEPT ![t] =
                          Finish([c EXCEPT !.hit = TRUE],
                                 Return(GetItem(CacheOf(c), CacheKey(c))), clock + 1)]
            /\ detection_cache' = IF c.op = "detect"
                                  THEN AfterGet(detection_cache, CacheKey(c))
                                  ELSE detection_cache
            /\ translation_cache' = IF c.op = "translate"
                                    THEN AfterGet(translation_cache, CacheKey(c))
                                    ELSE translation_cache
       ELSE /\ pc' = [pc EXCEPT ![t] = "http"]
            /\ call' = [call EXCEPT ![t] =
                          [c EXCEPT !.reqs = @ + 1,
                                    !.params = Some(IF c.op = "detect"
                                                    THEN DetectParams(c.text)
                                                    ELSE TranslateParams(c.target, c.text,
                                                                         c.from_lang))]]
            /\ UNCHANGED <<detection_cache, translation_cache>>
    /\ UNCHANGED <<phase, api_token, global_counter, guild_counter, config_count,
                   config_guild_count>>

DetectStart(t, text, guild) ==
    StartCall(t, NewCall("detect", text, None, None, guild))

TranslateStart(t, target, text, from_lang, guild) ==
    StartCall(t, NewCall("translate", text, target, from_lang, guild))

\* a failed request whose empty result is stored under the key of the call
HttpFail_Stores(t, how) ==
    /\ pc[t] = "http"
    /\ pc' = [pc EXCEPT ![t] = "done"]
    /\ call' = [call EXCEPT ![t] = Finish([@ EXCEPT !.response = how], Return(Nothing), clock)]
    /\ detection_cache' =
         IF call[t].op = "detect"
         THEN SetItem(detection_cache, cache_limit, CacheKey(call[t]), Nothing)
         ELSE detection_cache
    /\ translation_cache' =
         IF call[t].op = "translate"
         THEN SetItem(translation_cache, cache_limit, CacheKey(call[t]), Nothing)
         ELSE translation_cache
    /\ UNCHANGED <<phase, api_token, global_counter, guild_counter, config_count,
                   config_guild_count, clock>>

HttpFail_Raises(t, how) ==
    /\ pc[t] = "http"
    /\ pc' = [pc EXCEPT ![t] = "done"]
    /\ call' = [call EXCEPT ![t] = Finish([@ EXCEPT !.response = how], Raise(how), clock)]
    /\ UNCHANGED <<phase, api_token, detection_cache, translation_cache, global_counter,
                   guild_counter, config_count, config_guild_count, clock>>

\* the response is not 200 ("non200"), or the request raised ("exception"):
\* a warning is logged and the call returns None
HttpFail(t, how) ==
    /\ pc[t] = "http"
    /\ pc' = [pc EXCEPT ![t] = "done"]
    /\ call' = [call EXCEPT ![t] = Finish([@ EXCEPT !.response = how], Return(Nothing), clock)]
    /\ UNCHANGED <<phase, api_token, detection_cache, translation_cache, global_counter,
                   guild_counter, config_count, config_guild_count, clock>>

HttpError_ReturnsNone(t, message) ==
    /\ pc[t] = "http"
    /\ pc' = [pc EXCEPT ![t] = "done"]
    /\ call' = [call EXCEPT ![t] =
                  Finish([@ EXCEPT !.response = "error", !.data = Some(message)],
                         Return(Nothing), clock)]
    /\ UNCHANGED <<phase, api_token, detection_cache, translation_cache, global_counter,
                   guild_counter, config_count, config_guild_count, clock>>

\* a 200 response whose body holds an error object with this message
HttpError(t, message) ==
    /\ pc[t] = "http"
    /\ pc' = [pc EXCEPT ![t] = "done"]
    /\ call' = [call EXCEPT ![t] =
                  Finish([@ EXCEPT !.response = "error", !.data = Some(message)],
                         Raise(message), clock)]
    /\ UNCHANGED <<phase, api_token, detection_cache, translation_cache, global_counter,
                   guild_counter, config_count, config_guild_count, clock>>

\* the increment add_detect / add_requests applies to one scope's counts
AddCounts(counts, c) ==
    IF c.op = "detect"
    THEN Inc(counts, "detect", 1)
    ELSE Inc(Inc(counts, "requests", 1), "characters", Len(c.text))

\* the last step of a call that got a result, with the global counts in memory
\* (g_counts): the global increment, the cache write and the return
StoreAndReturn(t, c, g_counts) ==
    /\ global_counter' = AddCounts(g_counts, c)
    /\ clock' = clock + 1
    /\ pc' = [pc EXCEPT ![t] = "done"]
    /\ detection_cache' =
         IF c.op = "detect"
         THEN SetItem(detection_cache, cache_limit, CacheKey(c), CacheValue(c))
         ELSE detection_cache
    /\ translation_cache' =
         IF c.op = "translate"
         THEN SetItem(translation_cache, cache_limit, CacheKey(c), CacheValue(c))
         ELSE translation_cache
    /\ call' = [call EXCEPT ![t] =
                  Finish([c EXCEPT !.evicted = Evicted(CacheOf(c), cache_limit, CacheKey(c))],
                         Return(CacheValue(c)), clock + 1)]

\* add_detect / add_requests from the global part on, the guild part done: a read
\* of the global counts if they are not in memory, else the last step
GlobalPart(t, c) ==
    IF global_counter = EmptyDict
    THEN /\ pc' = [pc EXCEPT ![t] = "read_global"]
         /\ call' = [call EXCEPT ![t] = c]
         /\ UNCHANGED <<global_counter, detection_cache, translation_cache, clock>>
    ELSE StoreAndReturn(t, c, global_counter)

\* a 200 response with a result: from_json, then add_detect / add_requests up to
\* its first config read, or to the return when the scopes are in memory
HttpOk(t, payload) ==
    /\ pc[t] = "http"
    /\ payload \in (IF call[t].op = "detect" THEN DetectPayloads \cup LatnPayloads
                    ELSE TranslatePayloads)
    /\ LET c == [call[t] EXCEPT !.response = "ok", !.data = Some(payload)]
       IN IF c.guild # NoGuild /\ c.guild \notin DOMAIN guild_counter
          THEN /\ pc' = [pc EXCEPT ![t] = "read_guild"]
               /\ call' = [call EXCEPT ![t] = c]
               /\ UNCHANGED <<detection_cache, translation_cache, global_counter,
                              guild_counter, clock>>
          ELSE /\ guild_counter' =
                    IF c.guild = NoGuild THEN guild_counter
                    ELSE Put(guild_counter, c.guild, AddCounts(guild_counter[c.guild], c))
               /\ GlobalPart(t, c)
    /\ UNCHANGED <<phase, api_token, config_count, config_guild_count>>

\* a lazy load that writes the counts it has incremented back to the store
ConfigRead_WriteBack(t) ==
    /\ pc[t] \in {"read_guild", "read_global"}
    /\ IF pc[t] = "read_guild"
       THEN /\ guild_counter' =
                 Put(guild_counter, call[t].guild,
                     AddCounts(config_guild_count[call[t].guild], call[t]))
            /\ config_guild_count' =
                 [config_guild_count EXCEPT ![call[t].guild] = AddCounts(@, call[t])]
            /\ GlobalPart(t, call[t])
       ELSE /\ StoreAndReturn(t, call[t], config_count)
            /\ UNCHANGED <<guild_counter, config_guild_count>>
    /\ UNCHANGED <<phase, api_token, config_count>>

\* the config read that add_detect / add_requests awaited returns a copy of the
\* stored counts: the scope is set in memory and incremented, and the call goes on
ConfigRead(t) ==
    /\ pc[t] \in {"read_guild", "read_global"}
    /\ IF pc[t] = "read_guild"
       THEN /\ guild_counter' =
                 Put(guild_counter, call[t].guild,
                     AddCounts(config_guild_count[call[t].guild], call[t]))
            /\ GlobalPart(t, call[t])
       ELSE /\ StoreAndReturn(t, call[t], config_count)
            /\ UNCHANGED guild_counter
    /\ UNCHANGED <<phase, api_token, config_count, config_guild_count>>

\* the tasks are interchangeable: they start in the order of their numbers
MayStart(t) == \A u \in CacheTasks : u < t => pc[u] # "idle"

Responses == {"non200", "exception"}

Next ==
    \/ /\ \E k \in Tokens \cup {None} : CogLoad(k)
       /\ UNCHANGED <<lvars, bvars, hvars, cvars, pvars>>
    \/ /\ \E k \in Tokens : TokensUpdate(k)
       /\ UNCHANGED <<lvars, bvars, hvars, cvars, pvars>>
    \/ /\ \E t \in Tasks, x \in Texts, g \in CallGuilds :
             MayStart(t) /\ DetectStart(t, x, g)
       /\ UNCHANGED <<lvars, bvars, hvars, cvars, pvars>>
    \/ /\ \E t \in Tasks, tg \in Targets, x \in Texts, f \in Sources, g \in CallGuilds :
             MayStart(t) /\ TranslateStart(t, tg, x, f, g)
       /\ UNCHANGED <<lvars, bvars, hvars, cvars, pvars>>
    \/ /\ \E t \in Tasks, how \in Responses : HttpFail(t, how)
       /\ UNCHANGED <<lvars, bvars, hvars, cvars, pvars>>
    \/ /\ \E t \in Tasks, m \in ErrorMessages : HttpError(t, m)
       /\ UNCHANGED <<lvars, bvars, hvars, cvars, pvars>>
    \/ /\ \E t \in Tasks, p \in DetectPayloads \cup TranslatePayloads : HttpOk(t, p)
       /\ UNCHANGED <<lvars, bvars, hvars, cvars, pvars>>
    \/ /\ \E t \in Tasks : ConfigRead(t)
       /\ UNCHANGED <<lvars, bvars, hvars, cvars, pvars>>

Spec == Init /\ [][Next]_vars

\* the calls that fill the caches: three tasks, no guild, the token set
NextCache ==
    \/ /\ CogLoad("key")
       /\ UNCHANGED <<lvars, bvars, hvars, cvars, pvars>>
    \/ /\ \E t \in CacheTasks, x \in CacheTexts :
             MayStart(t) /\ DetectStart(t, x, NoGuild)
       /\ UNCHANGED <<lvars, bvars, hvars, cvars, pvars>>
    \/ /\ \E t \in CacheTasks, tg \in Targets, x \in CacheTranslateTexts :
             MayStart(t) /\ TranslateStart(t, tg, x, None, NoGuild)
       /\ UNCHANGED <<lvars, bvars, hvars, cvars, pvars>>
    \/ /\ \E t \in CacheTasks, how \in Responses : HttpFail(t, how)
       /\ UNCHANGED <<lvars, bvars, hvars, cvars, pvars>>
    \/ /\ \E t \in CacheTasks, p \in DetectPayloads \cup TranslatePayloads : HttpOk(t, p)
       /\ UNCHANGED <<lvars, bvars, hvars, cvars, pvars>>

SpecCache == Init /\ [][NextCache]_vars

----------------------------------------------------------------------------
(* The reaction listener and the cooldown of messages.  A handler is the    *)
(* coroutine of one on_raw_reaction_add event; the events arrive once the   *)
(* cog is loaded.  The guild, the channel, the permission to send, the      *)
(* reacting member and the allow and block lists let the reaction through.  *)

\* the elements of a list
Range(seq) == {seq[i] : i \in 1..Len(seq)}

\* _check_cooldown(message_id, lang)
CheckCooldown_NoMultiple(message_id, lang) ==
    IF message_id \in DOMAIN cooldown_translations
    THEN /\ lang \notin Range(cooldown_translations[message_id].past_flags)
         /\ ~(time < cooldown_translations[message_id].wait)
    ELSE TRUE

CheckCooldown_NoWait(message_id, lang) ==
    IF message_id \in DOMAIN cooldown_translations
    THEN /\ lang \notin Range(cooldown_translations[message_id].past_flags)
         /\ cooldown_translations[message_id].multiple
    ELSE TRUE

CheckCooldown(message_id, lang) ==
    IF message_id \in DOMAIN cooldown_translations
    THEN /\ lang \notin Range(cooldown_translations[message_id].past_flags)
         /\ cooldown_translations[message_id].multiple
         /\ ~(time < cooldown_translations[message_id].wait)
    ELSE TRUE

\* the handlers are interchangeable: they start in the order of their numbers;
\* so are the messages and the flags: a reaction is on the first message or
\* flag, or on one after a message or flag that got a reaction already
HandlerMayStart(h) == \A k \in Handlers : k < h => hpc[k] # "idle"

MessageMayGet(m) ==
    \A n \in Messages : n < m => \E k \in Handlers : reaction[k].message = n

FlagMayGet(e) ==
    e = ":flag_gb:" \/ \E k \in Handlers : reaction[k].emoji = ":flag_gb:"

\* the handler returns
HandlerReturn(h, outcome) ==
    /\ hpc' = [hpc EXCEPT ![h] = "done"]
    /\ reaction' = [reaction EXCEPT ![h].outcome = outcome]

\* history: flag e was accepted on message m since the loop last ran
Accepted(m, e) ==
    \E k \in triggered : reaction[k].message = m /\ reaction[k].emoji = e

\* a listener that does not look at the markers
ReactionAdd_NoMarker(h, m, e) ==
    /\ phase = "loaded"
    /\ hpc[h] = "idle"
    /\ IF api_token = None
       THEN /\ hpc' = [hpc EXCEPT ![h] = "done"]
            /\ reaction' = [reaction EXCEPT ![h] =
                   [IdleReaction EXCEPT !.message = m, !.emoji = e, !.outcome = "ignored",
                                        !.repeat = Accepted(m, e)]]
       ELSE /\ hpc' = [hpc EXCEPT ![h] = "gate"]
            /\ reaction' = [reaction EXCEPT ![h] =
                   [IdleReaction EXCEPT !.message = m, !.emoji = e,
                                        !.repeat = Accepted(m, e)]]
    /\ UNCHANGED <<translations, cooldown_translations, cache_cooldown,
                   config_cooldown, time, cmd, triggered,
                   tvars, lvars, bvars, hvars, pvars>>

\* on_raw_reaction_add, up to the first await: a flag emoji on message m;
\* returns when the token is missing or the message is marked as translated
ReactionAdd(h, m, e) ==
    /\ phase = "loaded"
    /\ hpc[h] = "idle"
    /\ IF api_token = None \/ m \in translations
       THEN /\ hpc' = [hpc EXCEPT ![h] = "done"]
            /\ reaction' = [reaction EXCEPT ![h] =
                   [IdleReaction EXCEPT !.message = m, !.emoji = e, !.outcome = "ignored",
                                        !.repeat = Accepted(m, e)]]
       ELSE /\ hpc' = [hpc EXCEPT ![h] = "gate"]
            /\ reaction' = [reaction EXCEPT ![h] =
                   [IdleReaction EXCEPT !.message = m, !.emoji = e,
                                        !.repeat = Accepted(m, e)]]
    /\ UNCHANGED <<translations, cooldown_translations, cache_cooldown,
                   config_cooldown, time, cmd, triggered,
                   tvars, lvars, bvars, hvars, pvars>>

\* on_raw_reaction_add, from the reads of cog_disabled_in_guild and of the
\* guild's reaction setting to the await of check_bw_list and fetch_message:
\* the cooldown check, with the language code of the flag
Gate(h) ==
    /\ hpc[h] = "gate"
    /\ IF CheckCooldown(reaction[h].message, FLAGS[reaction[h].emoji])
       THEN /\ hpc' = [hpc EXCEPT ![h] = "fetch"]
            /\ UNCHANGED reaction
       ELSE HandlerReturn(h, "cooldown")
    /\ UNCHANGED <<translations, cooldown_translations, cache_cooldown,
                   config_cooldown, time, cmd, triggered,
                   tvars, lvars, bvars, hvars, pvars>>

\* the state of a message after a trigger: cooldown["wait"] and
\* cooldown["past_flags"] updated on the dict c
Triggered_NoAppend(c, e) ==
    [past_flags |-> c.past_flags, timeout |-> c.timeout,
     multiple |-> c.multiple, wait |-> time + c.timeout]

Triggered(c, e) ==
    [past_flags |-> Append(c.past_flags, e), timeout |-> c.timeout,
     multiple |-> c.multiple, wait |-> time + c.timeout]

\* the handler stores the state c of its message and awaits translate_message
Track(h, c) ==
    /\ triggered' = triggered \cup {h}
    /\ cooldown_translations' =
          Put(cooldown_translations, reaction[h].message, Triggered(c, reaction[h].emoji))
    /\ hpc' = [hpc EXCEPT ![h] = "translating"]
    /\ reaction' = [reaction EXCEPT ![h].accepted = TRUE, ![h].multiple = c.multiple]

\* on_raw_reaction_add, from the message being found: a message not tracked
\* gets a copy of the cached global cooldown, read first when the cache has
\* none; a tracked message keeps its own state
Register(h) ==
    /\ hpc[h] = "fetch"
    /\ IF reaction[h].message \notin DOMAIN cooldown_translations
       THEN IF cache_cooldown = EmptyDict
            THEN /\ hpc' = [hpc EXCEPT ![h] = "load"]
                 /\ UNCHANGED <<cooldown_translations, reaction, triggered>>
            ELSE Track(h, cache_cooldown)
       ELSE Track(h, cooldown_translations[reaction[h].message])
    /\ UNCHANGED <<translations, cache_cooldown, config_cooldown, time, cmd,
                   tvars, lvars, bvars, hvars, pvars>>

\* on_raw_reaction_add, from the read of the global cooldown: the cache takes
\* it and the message, found untracked before the read, a copy of it
LoadCooldown(h) ==
    /\ hpc[h] = "load"
    /\ cache_cooldown' = config_cooldown
    /\ Track(h, config_cooldown)
    /\ UNCHANGED <<translations, config_cooldown, time, cmd, tvars, lvars, bvars, hvars, pvars>>

\* translate_message returns None, or the embed that the handler then sends
TranslateMessage(h, output) ==
    /\ hpc[h] = "translating"
    /\ IF output
       THEN /\ hpc' = [hpc EXCEPT ![h] = "sending"]
            /\ UNCHANGED reaction
       ELSE HandlerReturn(h, "no output")
    /\ UNCHANGED <<translations, cooldown_translations, cache_cooldown,
                   config_cooldown, time, cmd, triggered,
                   tvars, lvars, bvars, hvars, pvars>>

\* on_raw_reaction_add, after channel.send: a message whose state allows no
\* other translation is marked as translated
Sent(h) ==
    /\ hpc[h] = "sending"
    /\ translations' = IF reaction[h].multiple THEN translations
                       ELSE translations \cup {reaction[h].message}
    /\ HandlerReturn(h, "sent")
    /\ UNCHANGED <<cooldown_translations, cache_cooldown, config_cooldown,
                   time, cmd, triggered,
                   tvars, lvars, bvars, hvars, pvars>>

\* a second passes
Tick ==
    /\ time < MaxTime
    /\ time' = time + 1
    /\ UNCHANGED <<translations, cooldown_translations, cache_cooldown,
                   config_cooldown, hpc, reaction, cmd, triggered,
                   tvars, lvars, bvars, hvars, pvars>>

\* [p]translateset multiple, up to the read of the multiple setting
MultipleStart ==
    /\ phase = "loaded"
    /\ cmd = "idle"
    /\ cmd' = "toggle"
    /\ UNCHANGED <<translations, cooldown_translations, cache_cooldown,
                   config_cooldown, time, hpc, reaction, triggered,
                   tvars, lvars, bvars, hvars, pvars>>

\* [p]translateset multiple: the setting read is stored negated
MultipleToggle ==
    /\ cmd = "toggle"
    /\ config_cooldown' = [config_cooldown EXCEPT !.multiple = ~@]
    /\ cmd' = "refresh"
    /\ UNCHANGED <<translations, cooldown_translations, cache_cooldown,
                   time, hpc, reaction, triggered,
                   tvars, lvars, bvars, hvars, pvars>>

\* [p]translateset timeout <seconds>, up to the read of the global cooldown
TimeoutSet(seconds) ==
    /\ phase = "loaded"
    /\ cmd = "idle"
    /\ config_cooldown' = [config_cooldown EXCEPT !.timeout = seconds]
    /\ cmd' = "refresh"
    /\ UNCHANGED <<translations, cooldown_translations, cache_cooldown,
                   time, hpc, reaction, triggered,
                   tvars, lvars, bvars, hvars, pvars>>

\* both commands end with self.cache["cooldown"] = await self.config.cooldown()
Refresh ==
    /\ cmd = "refresh"
    /\ cache_cooldown' = config_cooldown
    /\ cmd' = "done"
    /\ UNCHANGED <<translations, cooldown_translations, config_cooldown,
                   time, hpc, reaction, triggered,
                   tvars, lvars, bvars, hvars, pvars>>

----------------------------------------------------------------------------
(* The periodic task.  Its 120 seconds are not counted: an iteration may    *)
(* start at any time when the one before has ended.  A step of save() goes  *)
(* from one read of the config store to the next; a write is in the store   *)
(* when it is issued.                                                       *)

\* the keys of a dict of guild ids, in the order they were inserted (the
\* stored guilds at load, then the others)
RECURSIVE KeyList(_)
KeyList(ids) ==
    IF ids = {} THEN <<>>
    ELSE LET k == CHOOSE x \in ids : \A y \in ids : x <= y
         IN <<k>> \o KeyList(ids \ {k})

\* translation_loop: the markers are dropped, then save() is awaited; before
\* cog_load self._tr is MISSING, the body raises and the loop ends
TranslationLoop ==
    /\ loop = "running"
    /\ save.pc = "idle"
    /\ translations' = {}
    /\ triggered' = {}
    /\ IF phase = "constructed"
       THEN loop' = "failed" /\ UNCHANGED save
       ELSE save' = [IdleSave EXCEPT !.pc = "global"] /\ UNCHANGED loop
    /\ UNCHANGED <<cooldown_translations, cache_cooldown, config_cooldown, time,
                   hpc, reaction, cmd, tvars, lvars, bvars, hvars>>

\* save(): the global counts in memory are written over the stored ones, and
\* the iteration over the guilds in memory starts
SaveGlobal ==
    /\ save.pc = "global"
    /\ config_count' = IF global_counter = EmptyDict THEN config_count ELSE global_counter
    /\ save' = IF guild_counter = EmptyDict THEN IdleSave
               ELSE [pc |-> "guild", keys |-> KeyList(DOMAIN guild_counter),
                     size |-> Cardinality(DOMAIN guild_counter)]
    /\ UNCHANGED <<phase, api_token, detection_cache, translation_cache, global_counter,
                   guild_counter, config_guild_count, pc, call, clock, loop, lvars, bvars, hvars, cvars>>

\* a save that writes the counts of a guild over those of the guilds that are
\* not in memory too
SaveGuild_OverOthers ==
    /\ save.pc = "guild"
    /\ IF save.keys = <<>>
       THEN /\ save' = IdleSave
            /\ UNCHANGED config_guild_count
       ELSE /\ config_guild_count' =
                  [g \in Guilds |-> IF g \in DOMAIN guild_counter /\ g # Head(save.keys)
                                    THEN config_guild_count[g]
                                    ELSE guild_counter[Head(save.keys)]]
            /\ save' = [save EXCEPT !.keys = Tail(@)]
    /\ UNCHANGED <<phase, api_token, detection_cache, translation_cache, global_counter,
                   guild_counter, config_count, pc, call, clock, loop, lvars, bvars, hvars, cvars>>

\* save(): the next guild of the iteration.  After the first guild the dict
\* iterator is asked for the next one, and raises when the dict has got a key
\* since the iteration started: save() and the loop end.  Else the counts in
\* memory of the guild are written over the stored ones
SaveGuild ==
    /\ save.pc = "guild"
    /\ IF Len(save.keys) < save.size /\ Cardinality(DOMAIN guild_counter) # save.size
       THEN /\ loop' = "failed"
            /\ save' = IdleSave
            /\ UNCHANGED config_guild_count
       ELSE IF save.keys = <<>>
            THEN /\ save' = IdleSave
                 /\ UNCHANGED <<loop, config_guild_count>>
            ELSE /\ config_guild_count' =
                       [config_guild_count EXCEPT ![Head(save.keys)] =
                            guild_counter[Head(save.keys)]]
                 /\ save' = [save EXCEPT !.keys = Tail(@)]
                 /\ UNCHANGED loop
    /\ UNCHANGED <<phase, api_token, detection_cache, translation_cache, global_counter,
                   guild_counter, config_count, pc, call, clock, lvars, bvars, hvars, cvars>>

\* the dict of the guilds in memory has got a key since the iteration started
SizeChanged == Len(save.keys) < save.size /\ Cardinality(DOMAIN guild_counter) # save.size

\* a failed write that puts back what the store held before the save
SaveFails_RollsBack(retried) ==
    /\ save.pc = "guild" /\ save.keys # <<>> /\ ~SizeChanged
    /\ save' = [save EXCEPT !.pc = IF retried THEN "idle" ELSE "raised"]
    /\ loop' = IF retried THEN loop ELSE "failed"
    /\ config_count' = PriorCount
    /\ config_guild_count' =
          [g \in Guilds |-> IF g \in StoredGuilds THEN PriorCount ELSE ZeroCount]
    /\ UNCHANGED <<phase, api_token, detection_cache, translation_cache, global_counter,
                   guild_counter, pc, call, clock, lvars, bvars, hvars, cvars>>

\* save(): the write of a guild's counts raises (the set() of the config
\* value on leaving "async with", api.py 196-199).  Nothing is written for the
\* guild, save() ends and the exception reaches the loop of translation_loop,
\* which runs the body again later for the exceptions it takes as transient
\* (retried) and ends for any other
SaveFails(retried) ==
    /\ save.pc = "guild" /\ save.keys # <<>> /\ ~SizeChanged
    /\ save' = [save EXCEPT !.pc = IF retried THEN "idle" ELSE "raised"]
    /\ loop' = IF retried THEN loop ELSE "failed"
    /\ UNCHANGED <<phase, api_token, detection_cache, translation_cache, global_counter,
                   guild_counter, config_count, config_guild_count, pc, call, clock,
                   lvars, bvars, hvars, cvars>>

\* the reactions, the owner's commands and the periodic task
NextCooldown ==
    \/ /\ \E k \in {None, "key"} : CogLoad(k)
       /\ UNCHANGED <<lvars, bvars, hvars, cvars, pvars>>
    \/ \E h \in Handlers, m \in Messages, e \in DOMAIN FLAGS :
          HandlerMayStart(h) /\ MessageMayGet(m) /\ FlagMayGet(e) /\ ReactionAdd(h, m, e)
    \/ \E h \in Handlers : Gate(h)
    \/ \E h \in Handlers : Register(h)
    \/ \E h \in Handlers : LoadCooldown(h)
    \/ \E h \in Handlers, output \in BOOLEAN : TranslateMessage(h, output)
    \/ \E h \in Handlers : Sent(h)
    \/ Tick
    \/ MultipleStart
    \/ MultipleToggle
    \/ \E seconds \in Timeouts : TimeoutSet(seconds)
    \/ Refresh
    \/ TranslationLoop
    \/ SaveGlobal
    \/ SaveGuild

\* after Translate.__init__, with any stored global cooldown
InitStored ==
    \E c \in StoredCooldowns :
        /\ InitTranslator /\ InitLanguage /\ InitLoop /\ InitViews /\ InitCooldownWith(c)
        /\ InitLists

SpecCooldown == InitStored /\ [][NextCooldown]_vars

\* the texts of the calls that run beside the periodic task: of length 1 and 2
FlushTexts == {<<1>>, <<1, 2>>}

\* the calls that count for a guild, and the periodic task that saves the counts
NextFlush ==
    \/ /\ CogLoad("key")
       /\ UNCHANGED <<lvars, bvars, hvars, cvars, pvars>>
    \/ /\ \E t \in Tasks, x \in FlushTexts, g \in Guilds :
             MayStart(t) /\ DetectStart(t, x, g)
       /\ UNCHANGED <<lvars, bvars, hvars, cvars, pvars>>
    \/ /\ \E t \in Tasks, x \in FlushTexts, g \in Guilds :
             MayStart(t) /\ TranslateStart(t, "es", x, None, g)
       /\ UNCHANGED <<lvars, bvars, hvars, cvars, pvars>>
    \/ /\ \E t \in Tasks, p \in DetectPayloads \cup TranslatePayloads : HttpOk(t, p)
       /\ UNCHANGED <<lvars, bvars, hvars, cvars, pvars>>
    \/ /\ \E t \in Tasks : ConfigRead(t)
       /\ UNCHANGED <<lvars, bvars, hvars, cvars, pvars>>
    \/ TranslationLoop
    \/ SaveGlobal
    \/ SaveGuild

SpecFlush == Init /\ [][NextFlush]_vars

\* the calls and the periodic task, with writes of the save that may fail
NextSave ==
    \/ NextFlush
    \/ \E retried \in BOOLEAN : SaveFails(retried)

SpecSave == Init /\ [][NextSave]_vars

\* StatsCounter.text from the guild on: the counts in memory of the guild when
\* it has some, else a read of the config store
TextGuild(s) ==
    IF s.guild = NoGuild THEN [s EXCEPT !.pc = "done"]
    ELSE IF s.guild \in DOMAIN guild_counter
         THEN [s EXCEPT !.pc = "done", !.count = Some(guild_counter[s.guild])]
         ELSE [s EXCEPT !.pc = "read_guild"]

\* StatsCounter.text(guild), up to its first config read: the global counts in
\* memory when there are some, else a read of the config store
TextStart(guild) ==
    /\ phase = "loaded"
    /\ summary.pc = "idle"
    /\ LET s == [IdleSummary EXCEPT !.guild = guild]
       IN summary' = IF global_counter = EmptyDict
                     THEN [s EXCEPT !.pc = "read_global"]
                     ELSE TextGuild([s EXCEPT !.gl_count = Some(global_counter)])
    /\ UNCHANGED <<tvars, lvars, bvars, cvars, pvars, event, closing, embed>>

\* a summary that shows zeros for a guild that is not in memory
TextRead_Zeros ==
    /\ summary.pc \in {"read_global", "read_guild"}
    /\ summary' = IF summary.pc = "read_global"
                  THEN TextGuild([summary EXCEPT !.gl_count = Some(config_count)])
                  ELSE [summary EXCEPT !.pc = "done", !.stored = TRUE,
                                       !.count = Some(ZeroCount)]
    /\ UNCHANGED <<tvars, lvars, bvars, cvars, pvars, event, closing, embed>>

\* StatsCounter.text resumes with what the config store holds
TextRead ==
    /\ summary.pc \in {"read_global", "read_guild"}
    /\ summary' = IF summary.pc = "read_global"
                  THEN TextGuild([summary EXCEPT !.gl_count = Some(config_count)])
                  ELSE [summary EXCEPT !.pc = "done", !.stored = TRUE,
                                       !.count = Some(config_guild_count[summary.guild])]
    /\ UNCHANGED <<tvars, lvars, bvars, cvars, pvars, event, closing, embed>>

\* the calls, the periodic task and one usage summary
NextText ==
    \/ NextFlush
    \/ \E g \in {NoGuild} \cup Guilds : TextStart(g)
    \/ TextRead

SpecText == Init /\ [][NextText]_vars

\* the three handlers that translate one message: the text command
\* (Translate.translate), the context menu command (translate_from_message)
\* and the reaction (translate_message, called by on_raw_reaction_add)
EventKinds == {"command", "menu", "reaction"}

\* the language asked for: the argument of the command, the locale of the
\* user, the code of the flag
EventTargets == {"en", "sr"}

EventTexts == {<<1>>}

\* the tasks of the handler's call of detect_language and of translate_text
DetectTask == 1
TranslateTask == 2

\* a handler with no except clause around its calls
Catches_Nothing(kind) == {}

\* the exception classes of the except clauses around the two calls: the
\* command names GoogleTranslateAPIError only, the other two Exception too
Catches(kind) ==
    IF kind = "command" THEN {"GoogleTranslateAPIError"}
    ELSE {"GoogleTranslateAPIError", "Exception"}

\* an exception of class e raised inside the try is caught (every class of the
\* model derives from Exception)
IsCaught(kind, e) == e \in Catches(kind) \/ "Exception" \in Catches(kind)

\* the handler returns
EventDone(outcome) == event' = [event EXCEPT !.stage = "done", !.outcome = outcome]

\* the handler up to its call of detect_language: without a token
\* (has_token: _api_token is None) it answers and returns
EventStart(kind, to_language, text, guild) ==
    /\ phase = "loaded"
    /\ event.stage = "idle"
    /\ IF api_token = None
       THEN /\ event' = [kind |-> kind, stage |-> "done", to_language |-> to_language,
                         outcome |-> "no key"]
            /\ UNCHANGED tvars
       ELSE /\ event' = [kind |-> kind, stage |-> "detecting",
                         to_language |-> to_language, outcome |-> "none"]
            /\ DetectStart(DetectTask, text, guild)
    /\ UNCHANGED <<lvars, bvars, cvars, pvars, summary, closing, embed>>

\* the language the handler passes on as the source: the command takes "auto"
\* when nothing was detected
FromLang(detected_lang) ==
    IF detected_lang = Nothing THEN "auto" ELSE detected_lang[1].language

\* handlers that all go on with "auto" when nothing was detected
AfterDetect_AlwaysAuto ==
    /\ event.stage = "detecting"
    /\ pc[DetectTask] = "done"
    /\ LET c == call[DetectTask]
           r == c.result
       IN IF r.kind # "return"
          THEN /\ EventDone(IF IsCaught(event.kind, r.kind) THEN "error" ELSE "raised")
               /\ UNCHANGED tvars
          ELSE IF FromLang(r.value) = event.to_language
          THEN /\ EventDone("same language")
               /\ UNCHANGED tvars
          ELSE /\ event' = [event EXCEPT !.stage = "translating"]
               /\ TranslateStart(TranslateTask, event.to_language, c.text,
                                 FromLang(r.value), c.guild)
    /\ UNCHANGED <<lvars, bvars, cvars, pvars, summary, closing, embed>>

\* a handler that does not compare the two languages
AfterDetect_NoCompare ==
    /\ event.stage = "detecting"
    /\ pc[DetectTask] = "done"
    /\ LET c == call[DetectTask]
           r == c.result
       IN IF r.kind # "return"
          THEN /\ EventDone(IF IsCaught(event.kind, r.kind) THEN "error" ELSE "raised")
               /\ UNCHANGED tvars
          ELSE IF event.kind # "command" /\ r.value = Nothing
          THEN /\ EventDone("no detection")
               /\ UNCHANGED tvars
          ELSE /\ event' = [event EXCEPT !.stage = "translating"]
               /\ TranslateStart(TranslateTask, event.to_language, c.text,
                                 FromLang(r.value), c.guild)
    /\ UNCHANGED <<lvars, bvars, cvars, pvars, summary, closing, embed>>

\* the handler from the end of detect_language to its call of translate_text:
\* an exception of the call is answered (or propagates when no except clause
\* takes it); no detection ends the menu and the reaction; the same language
\* as the one asked for ends the handler; else translate_text is called
AfterDetect ==
    /\ event.stage = "detecting"
    /\ pc[DetectTask] = "done"
    /\ LET c == call[DetectTask]
           r == c.result
       IN IF r.kind # "return"
          THEN /\ EventDone(IF IsCaught(event.kind, r.kind) THEN "error" ELSE "raised")
               /\ UNCHANGED tvars
          ELSE IF event.kind # "command" /\ r.value = Nothing
          THEN /\ EventDone("no detection")
               /\ UNCHANGED tvars
          ELSE IF FromLang(r.value) = event.to_language
          THEN /\ EventDone("same language")
               /\ UNCHANGED tvars
          ELSE /\ event' = [event EXCEPT !.stage = "translating"]
               /\ TranslateStart(TranslateTask, event.to_language, c.text,
                                 FromLang(r.value), c.guild)
    /\ UNCHANGED <<lvars, bvars, cvars, pvars, summary, closing, embed>>

\* the handler after translate_text: an exception is answered (or
\* propagates), no translation ends it, else the translation is sent
AfterTranslate ==
    /\ event.stage = "translating"
    /\ pc[TranslateTask] = "done"
    /\ LET r == call[TranslateTask].result
       IN EventDone(IF r.kind # "return"
                    THEN IF IsCaught(event.kind, r.kind) THEN "error" ELSE "raised"
                    ELSE IF r.value = Nothing THEN "nothing translated" ELSE "sent")
    /\ UNCHANGED <<tvars, lvars, bvars, cvars, pvars, summary, closing, embed>>

EventTasks == {DetectTask, TranslateTask}

\* one message translated by a handler, with every outcome of its two requests
NextEvent ==
    \/ /\ \E k \in Tokens \cup {None} : CogLoad(k)
       /\ UNCHANGED <<lvars, bvars, hvars, cvars, pvars>>
    \/ \E kind \in EventKinds, to \in EventTargets, x \in EventTexts, g \in CallGuilds :
          EventStart(kind, to, x, g)
    \/ /\ \E t \in EventTasks, how \in Responses : HttpFail(t, how)
       /\ UNCHANGED <<lvars, bvars, hvars, cvars, pvars>>
    \/ /\ \E t \in EventTasks, m \in ErrorMessages : HttpError(t, m)
       /\ UNCHANGED <<lvars, bvars, hvars, cvars, pvars>>
    \/ /\ \E t \in EventTasks,
              p \in DetectPayloads \cup LatnPayloads \cup TranslatePayloads : HttpOk(t, p)
       /\ UNCHANGED <<lvars, bvars, hvars, cvars, pvars>>
    \/ /\ \E t \in EventTasks : ConfigRead(t)
       /\ UNCHANGED <<lvars, bvars, hvars, cvars, pvars>>
    \/ AfterDetect
    \/ AfterTranslate

SpecEvent == Init /\ [][NextEvent]_vars

\* raise asyncio.CancelledError: no except clause of the calls takes it
Cancelled == [kind |-> "CancelledError", value |-> Nothing]

\* a cancelled call that stores an empty result under its key
Cancel_Stores(t) ==
    /\ pc[t] \in {"http", "read_guild", "read_global"}
    /\ pc' = [pc EXCEPT ![t] = "done"]
    /\ call' = [call EXCEPT ![t] = Finish([@ EXCEPT !.response = "cancelled"],
                                          Cancelled, clock)]
    /\ detection_cache' =
         IF call[t].op = "detect"
         THEN SetItem(detection_cache, cache_limit, CacheKey(call[t]), Nothing)
         ELSE detection_cache
    /\ translation_cache' =
         IF call[t].op = "translate"
         THEN SetItem(translation_cache, cache_limit, CacheKey(call[t]), Nothing)
         ELSE translation_cache
    /\ UNCHANGED <<phase, api_token, global_counter, guild_counter, config_count,
                   config_guild_count, clock>>

\* the handler is cancelled while the call is suspended, in the request or in
\* a config read of add_detect / add_requests: CancelledError is raised at the
\* await and leaves the call, whose remaining statements do not run
Cancel(t) ==
    /\ pc[t] \in {"http", "read_guild", "read_global"}
    /\ pc' = [pc EXCEPT ![t] = "done"]
    /\ call' = [call EXCEPT ![t] = Finish([@ EXCEPT !.response = "cancelled"],
                                          Cancelled, clock)]
    /\ UNCHANGED <<phase, api_token, detection_cache, translation_cache, global_counter,
                   guild_counter, config_count, config_guild_count, clock>>

\* the calls and the periodic task, with handlers that may be cancelled
NextCancel ==
    \/ NextFlush
    \/ /\ \E t \in Tasks : Cancel(t)
       /\ UNCHANGED <<lvars, bvars, hvars, cvars, pvars>>

SpecCancel == Init /\ [][NextCancel]_vars

\* the language codes an embed is built for: what the detection may answer,
\* the codes of the flags and of ISO639_MAP, and the "auto" of the command
EmbedCodes == {"en", "sr", "sr-Latn", "hi-Latn", "zh-CN", "auto"}

\* the names ISO639_MAP may hold for these codes; the map is read from
\* lang_codes.py, and the model takes every subset of them as its content
NameOf == [c \in {"en", "sr", "hi"} |->
             IF c = "en" THEN "English" ELSE IF c = "sr" THEN "Serbian" ELSE "Hindi"]

Lowers == "abcdefghijklmnopqrstuvwxyz"
Uppers == "ABCDEFGHIJKLMNOPQRSTUVWXYZ"

\* the character of the string to that stands where c stands in from, or c
Mapped(c, from, to) ==
    IF \E i \in 1..Len(from) : SubSeq(from, i, i) = c
    THEN LET i == CHOOSE j \in 1..Len(from) : SubSeq(from, j, j) = c
         IN SubSeq(to, i, i)
    ELSE c

\* str.upper() and str.lower()
RECURSIVE Upper(_)
Upper(s) ==
    IF s = "" THEN ""
    ELSE Mapped(SubSeq(s, 1, 1), Lowers, Uppers) \o Upper(SubSeq(s, 2, Len(s)))

RECURSIVE Lower(_)
Lower(s) ==
    IF s = "" THEN ""
    ELSE Mapped(SubSeq(s, 1, 1), Uppers, Lowers) \o Lower(SubSeq(s, 2, Len(s)))

\* ISO639_MAP.get(code.lower()) or code.upper(), with names for the codes of
\* the set named
LanguageName(code, named) ==
    IF Lower(code) \in named THEN NameOf[Lower(code)] ELSE Upper(code)

\* the text of the footer (its arrow is written "->" here)
Footer(from_language, to_language, named) ==
    LanguageName(from_language, named) \o "  ->  " \o LanguageName(to_language, named)

\* an embed whose footer is made of the codes as they come
Embed_Raw ==
    /\ ~embed.built
    /\ embed' = [embed EXCEPT
                    !.built = TRUE,
                    !.footer = Footer(embed.from_language, embed.to_language, embed.named),
                    !.content = "> Requested by: " \o
                                (IF embed.requestor # None THEN embed.requestor
                                 ELSE "author")]
    /\ UNCHANGED <<tvars, lvars, bvars, cvars, pvars, summary, event, closing>>

\* TranslateTextResponse.embed: "-Latn" is taken out of the two codes, the
\* footer shows the name or the upper-cased code of each, and the content
\* mentions the requestor, or the author when there is none
Embed ==
    /\ ~embed.built
    /\ embed' = [embed EXCEPT
                    !.built = TRUE,
                    !.footer = Footer(Replace(embed.from_language, "-Latn", ""),
                                      Replace(embed.to_language, "-Latn", ""),
                                      embed.named),
                    !.content = "> Requested by: " \o
                                (IF embed.requestor # None THEN embed.requestor
                                 ELSE "author")]
    /\ UNCHANGED <<tvars, lvars, bvars, cvars, pvars, summary, event, closing>>

\* an embed to build for any two codes, any requestor and any names
InitEmbed ==
    /\ InitTranslator /\ InitLanguage /\ InitCooldown /\ InitLoop /\ InitLists
    /\ summary = IdleSummary
    /\ event = IdleEvent
    /\ closing = IdleSave
    /\ \E f \in EmbedCodes, t \in EmbedCodes, r \in {None, "requestor"},
          n \in SUBSET DOMAIN NameOf :
          embed = [NoEmbed EXCEPT !.from_language = f, !.to_language = t,
                                  !.requestor = r, !.named = n]

SpecEmbed == InitEmbed /\ [][Embed]_vars

\* Translate.cog_unload up to the save() of GoogleTranslator.close: the context
\* menu command is removed and close() is awaited.  Nothing stops
\* translation_loop
CogUnload ==
    /\ phase = "loaded"
    /\ closing.pc = "idle"
    /\ phase' = "unloading"
    /\ closing' = [IdleSave EXCEPT !.pc = "global"]
    /\ UNCHANGED <<api_token, detection_cache, translation_cache, global_counter,
                   guild_counter, config_count, config_guild_count, pc, call, clock,
                   lvars, bvars, cvars, pvars, summary, event, embed>>

\* close(): save() writes the global counts and starts on the guilds
CloseGlobal ==
    /\ closing.pc = "global"
    /\ config_count' = IF global_counter = EmptyDict THEN config_count ELSE global_counter
    /\ closing' = IF guild_counter = EmptyDict THEN [IdleSave EXCEPT !.pc = "session"]
                  ELSE [pc |-> "guild", keys |-> KeyList(DOMAIN guild_counter),
                        size |-> Cardinality(DOMAIN guild_counter)]
    /\ UNCHANGED <<phase, api_token, detection_cache, translation_cache, global_counter,
                   guild_counter, config_guild_count, pc, call, clock,
                   lvars, bvars, cvars, pvars, summary, event, embed>>

\* close(): the next guild of save().  When the dict has got a key since the
\* iteration started save() raises, and so do close() and cog_unload: the
\* session stays open and the cog is removed all the same
CloseGuild ==
    /\ closing.pc = "guild"
    /\ IF Len(closing.keys) < closing.size
          /\ Cardinality(DOMAIN guild_counter) # closing.size
       THEN /\ closing' = [IdleSave EXCEPT !.pc = "raised"]
            /\ phase' = "unloaded"
            /\ UNCHANGED config_guild_count
       ELSE IF closing.keys = <<>>
            THEN /\ closing' = [IdleSave EXCEPT !.pc = "session"]
                 /\ UNCHANGED <<phase, config_guild_count>>
            ELSE /\ config_guild_count' =
                       [config_guild_count EXCEPT ![Head(closing.keys)] =
                            guild_counter[Head(closing.keys)]]
                 /\ closing' = [closing EXCEPT !.keys = Tail(@)]
                 /\ UNCHANGED phase
    /\ UNCHANGED <<api_token, detection_cache, translation_cache, global_counter,
                   guild_counter, config_count, pc, call, clock,
                   lvars, bvars, cvars, pvars, summary, event, embed>>

\* close(): the session is closed, and cog_unload returns
CloseSession ==
    /\ closing.pc = "session"
    /\ closing' = [closing EXCEPT !.pc = "closed"]
    /\ phase' = "unloaded"
    /\ UNCHANGED <<api_token, detection_cache, translation_cache, global_counter,
                   guild_counter, config_count, config_guild_count, pc, call, clock,
                   lvars, bvars, cvars, pvars, summary, event, embed>>

\* the calls, the periodic task and the unload of the cog; a request that is
\* out when the session closes ends with an exception
NextUnload ==
    \/ /\ CogLoad("key")
       /\ UNCHANGED <<lvars, bvars, hvars, cvars, pvars>>
    \/ /\ \E t \in Tasks, x \in FlushTexts, g \in Guilds :
             MayStart(t) /\ DetectStart(t, x, g)
       /\ UNCHANGED <<lvars, bvars, hvars, cvars, pvars>>
    \/ /\ closing.pc # "closed"
       /\ \E t \in Tasks, p \in DetectPayloads : HttpOk(t, p)
       /\ UNCHANGED <<lvars, bvars, hvars, cvars, pvars>>
    \/ /\ closing.pc = "closed"
       /\ \E t \in Tasks : HttpFail(t, "exception")
       /\ UNCHANGED <<lvars, bvars, hvars, cvars, pvars>>
    \/ /\ \E t \in Tasks : ConfigRead(t)
       /\ UNCHANGED <<lvars, bvars, hvars, cvars, pvars>>
    \/ TranslationLoop
    \/ SaveGlobal
    \/ SaveGuild
    \/ CogUnload
    \/ CloseGlobal
    \/ CloseGuild
    \/ CloseSession

SpecUnload == Init /\ [][NextUnload]_vars

\* DetectLanguageResponse.from_json(...).language on one response
Resolve ==
    /\ ~language.resolved
    /\ language' = [resolved |-> TRUE, ret |-> Language(data_detections)]
    /\ UNCHANGED <<data_detections, tvars, cvars, pvars, hvars, bvars>>

\* the language resolved from every list of detections of the bounds
InitDetections ==
    /\ InitTranslator /\ InitCooldown /\ InitLoop /\ InitViews /\ InitLists
    /\ data_detections \in DetectionLists
    /\ language = Unresolved

SpecLanguage == InitDetections /\ [][Resolve]_vars

----------------------------------------------------------------------------
(* Properties *)

\* the keys of a cache in insertion order
KeySeq(cache) == [i \in 1..Len(cache) |-> cache[i].key]

\* task t takes, in this step, the last step of a call that got a result:
\* the one that writes the cache
Stores(t) == pc[t] # "done" /\ pc'[t] = "done" /\ call'[t].response = "ok"

\* task t takes, in this step, the first step of a call and hits the cache
Hits(t) == pc[t] = "idle" /\ pc'[t] = "done" /\ call'[t].hit

\* task t is back from a call that wrote its cache
Stored_(t) == pc[t] = "done" /\ call[t].response = "ok"

\* C1: in every reachable state the detection cache and the translation cache
\* each hold at most cache_limit entries
C1_CacheSizeBounded ==
    /\ Len(detection_cache) <= cache_limit
    /\ Len(translation_cache) <= cache_limit

\* a write into a full cache has dropped an entry and the cache is still full
C1_Witness ==
    \E t \in CacheTasks :
        /\ Stored_(t)
        /\ call[t].evicted # Nothing
        /\ Len(CacheOf(call[t])) = cache_limit

\* C2: a write of a new key into a full cache removes exactly the entry inserted
\* first and keeps every other entry, in order, followed by the new entry
C2_EvictsOldest ==
    [][\A t \in CacheTasks :
          LET c == call'[t]
              new == [key |-> CacheKey(c), value |-> CacheValue(c)]
          IN /\ (Stores(t) /\ c.op = "detect" /\ Len(detection_cache) = cache_limit
                   /\ new.key \notin Keys(detection_cache))
                => detection_cache' = Append(Tail(detection_cache), new)
             /\ (Stores(t) /\ c.op = "translate" /\ Len(translation_cache) = cache_limit
                   /\ new.key \notin Keys(translation_cache))
                => translation_cache' = Append(Tail(translation_cache), new)]_vars

\* a call has written a new key into a full cache of two other keys
C2_Witness ==
    \E t \in CacheTasks :
        /\ Stored_(t)
        /\ call[t].evicted # Nothing
        /\ call[t].evicted # Some(CacheKey(call[t]))
        /\ Len(CacheOf(call[t])) = cache_limit
        /\ CacheOf(call[t])[cache_limit].key = CacheKey(call[t])

\* C3: a lookup that hits changes neither cache, and a write on a key that is
\* present keeps the keys of the cache and their order (nothing is evicted,
\* nothing is moved)
C3_NoPromotion ==
    [][\A t \in CacheTasks :
          /\ Hits(t) => UNCHANGED <<detection_cache, translation_cache>>
          /\ (Stores(t) /\ call'[t].op = "detect"
                /\ CacheKey(call'[t]) \in Keys(detection_cache))
             => KeySeq(detection_cache') = KeySeq(detection_cache)
          /\ (Stores(t) /\ call'[t].op = "translate"
                /\ CacheKey(call'[t]) \in Keys(translation_cache))
             => KeySeq(translation_cache') = KeySeq(translation_cache)]_vars

\* two calls missed on the same key and both wrote it; the later write found the
\* key present, as the first of two entries
C3_Witness ==
    \E t, u \in CacheTasks :
        /\ t # u /\ Stored_(t) /\ Stored_(u)
        /\ call[t].op = call[u].op
        /\ CacheKey(call[t]) = CacheKey(call[u])
        /\ ~call[t].hit /\ ~call[u].hit
        /\ Len(CacheOf(call[t])) = cache_limit
        /\ CacheOf(call[t])[1].key = CacheKey(call[t])

\* the call of task t raised in its first step, for the missing token
TokenRaised(t) ==
    /\ call[t].result.kind = "GoogleTranslateAPIError"
    /\ call[t].response = "none"

\* task t is back from a detect_language call
DetectDone(t) == pc[t] = "done" /\ call[t].op = "detect"

\* u and t are two detect_language calls in sequence on the same text: t started
\* right after u returned, no other call having started or written a cache since
InSequence(u, t) ==
    /\ u # t /\ DetectDone(u) /\ DetectDone(t)
    /\ call[u].text = call[t].text
    /\ call[t].started = call[u].ended + 1

\* C4 as stated: two detect_language calls in sequence on the same text send
\* exactly one request between them, and the second returns what the first did
C4_Original ==
    \A u, t \in CacheTasks :
        InSequence(u, t)
        => /\ call[u].reqs + call[t].reqs = 1
           /\ call[t].result = call[u].result

\* C4 as amended: when the first of the two calls misses the cache and gets a
\* result, it sends exactly one request and the second none, and the second
\* returns the result of the first from the cache
C4_SecondCallCached ==
    \A u, t \in CacheTasks :
        (InSequence(u, t) /\ ~call[u].hit /\ call[u].response = "ok")
        => /\ call[u].reqs = 1
           /\ call[t].reqs = 0
           /\ call[t].hit
           /\ call[t].result = call[u].result

\* the second of two calls in sequence returned the language the first resolved,
\* after a third call had written another key
C4_Witness ==
    \E u, t \in CacheTasks :
        /\ InSequence(u, t)
        /\ ~call[u].hit /\ call[u].response = "ok"
        /\ call[u].result.value # Nothing
        /\ call[t].hit
        /\ Len(detection_cache) = cache_limit

\* C5: a call that hits its cache sends no request and leaves both caches and
\* every counter, in memory and in the config store, unchanged
C5_HitChangesNothing ==
    [][\A t \in Tasks :
          Hits(t)
          => /\ call'[t].reqs = 0
             /\ call'[t].params = Nothing
             /\ UNCHANGED <<detection_cache, translation_cache, global_counter,
                            guild_counter, config_count, config_guild_count>>]_vars

\* a call with a guild has hit its cache
C5_Witness ==
    \E t \in Tasks :
        /\ pc[t] = "done" /\ call[t].hit
        /\ call[t].guild # NoGuild
        /\ call[t].result.kind = "return"

\* C6: with no token (None or empty) a call raises the API error in its first
\* step, has sent no request, and leaves caches and counters unchanged, also
\* when its key is in the cache
C6_NoTokenRaises ==
    [][\A t \in Tasks :
          (pc[t] = "idle" /\ pc'[t] # "idle" /\ api_token \in {None, ""})
          => /\ pc'[t] = "done"
             /\ call'[t].result.kind = "GoogleTranslateAPIError"
             /\ call'[t].result.value = Some(TokenMissing)
             /\ call'[t].reqs = 0
             /\ UNCHANGED <<detection_cache, translation_cache, global_counter,
                            guild_counter, config_count, config_guild_count>>]_vars

\* a call raised for the missing token although its key is cached
C6_Witness ==
    \E t \in Tasks :
        /\ pc[t] = "done"
        /\ TokenRaised(t)
        /\ api_token = ""
        /\ Contains(CacheOf(call[t]), CacheKey(call[t]))

\* C7: a call whose request ended in a non-200 response or in an exception
\* has returned None, without raising, after exactly one request
C7_FailureReturnsNone ==
    \A t \in Tasks :
        (pc[t] = "done" /\ call[t].response \in {"non200", "exception"})
        => /\ call[t].result.kind = "return"
           /\ call[t].result.value = Nothing
           /\ call[t].reqs = 1
           /\ ~call[t].hit

\* a detect_language call got a non-200 response and a translate_text call an exception
C7_Witness ==
    \E t, u \in Tasks :
        /\ pc[t] = "done" /\ call[t].op = "detect" /\ call[t].response = "non200"
        /\ pc[u] = "done" /\ call[u].op = "translate" /\ call[u].response = "exception"

\* C8: a call whose request got a 200 response with an error object has raised
\* the API error with the message of that object
C8_ApiErrorRaises ==
    \A t \in Tasks :
        (pc[t] = "done" /\ call[t].response = "error")
        => /\ call[t].result.kind = "GoogleTranslateAPIError"
           /\ call[t].result.value = call[t].data
           /\ call[t].data # Some(TokenMissing)
           /\ call[t].reqs = 1

\* both operations raised, each with the message the API sent
C8_Witness ==
    \E t, u \in Tasks :
        /\ pc[t] = "done" /\ call[t].op = "detect" /\ call[t].response = "error"
        /\ pc[u] = "done" /\ call[u].op = "translate" /\ call[u].response = "error"
        /\ call[t].result # call[u].result

\* the counts of guild g that an increment starts from: those in memory, or those
\* of the config store when the guild is not in memory yet
CountsBefore(g) ==
    IF g \in DOMAIN guild_counter THEN guild_counter[g] ELSE config_guild_count[g]

\* the step of task t leaves the counts of every guild but g as they are
OtherGuildsKept(g) ==
    /\ DOMAIN guild_counter' = DOMAIN guild_counter \cup ({g} \ {NoGuild})
    /\ \A h \in DOMAIN guild_counter \ {g} : guild_counter'[h] = guild_counter[h]

\* the call's result is in the cache, under the call's key, when the call returns
ResultCached(cache, c) ==
    /\ Contains(cache, CacheKey(c))
    /\ GetItem(cache, CacheKey(c)) = c.result.value

\* C9: a detect_language call that missed and got a result adds exactly 1 to the
\* detect count in memory of its guild (when it has one) and of global, changes
\* no other count, and returns with its result in the detection cache
C9_DetectCounts ==
    [][\A t \in Tasks :
          (Stores(t) /\ call'[t].op = "detect")
          => LET g == call'[t].guild
             IN /\ global_counter' = [global_counter EXCEPT !.detect = @ + 1]
                /\ g # NoGuild
                   => /\ g \in DOMAIN guild_counter'
                      /\ guild_counter'[g] = [CountsBefore(g) EXCEPT !.detect = @ + 1]
                /\ OtherGuildsKept(g)
                /\ ResultCached(detection_cache', call'[t])]_vars

\* C10: a translate_text call that missed and got a result adds exactly 1 to the
\* requests count and len(text) to the characters count in memory, of its guild
\* (when it has one) and of global, leaves the detect count, and returns with
\* the translation in the translation cache
C10_TranslateCounts ==
    [][\A t \in Tasks :
          (Stores(t) /\ call'[t].op = "translate")
          => LET g == call'[t].guild
                 n == Len(call'[t].text)
             IN /\ global_counter' = [global_counter EXCEPT !.requests = @ + 1,
                                                            !.characters = @ + n]
                /\ g # NoGuild
                   => /\ g \in DOMAIN guild_counter'
                      /\ guild_counter'[g] = [CountsBefore(g) EXCEPT !.requests = @ + 1,
                                                                     !.characters = @ + n]
                /\ OtherGuildsKept(g)
                /\ ResultCached(translation_cache', call'[t])]_vars

\* C11: the language resolved from a list of detections is the candidate with
\* the highest confidence, and among those of highest confidence the earliest
C11_HighestFirst ==
    (language.resolved /\ data_detections # <<>>)
    => \E i \in 1..Len(data_detections) :
          /\ language.ret = Some(data_detections[i])
          /\ \A j \in 1..Len(data_detections) :
                data_detections[j].confidence <= data_detections[i].confidence
          /\ \A j \in 1..(i - 1) :
                data_detections[j].confidence < data_detections[i].confidence

\* handler h runs, in this step, the cooldown check for its reaction
Checks(h) == hpc[h] = "gate" /\ hpc'[h] # "gate"

\* the check lets the reaction of h through / turns it down
Passes(h) == hpc'[h] = "fetch"
Rejects(h) == hpc'[h] = "done" /\ reaction'[h].outcome = "cooldown"

\* handler h stores, in this step, the state of its message
Tracks(h) == hpc[h] \in {"fetch", "load"} /\ hpc'[h] = "translating"

\* the message of handler h has a tracked state
Tracked(h) == reaction[h].message \in DOMAIN cooldown_translations
StateOf(h) == cooldown_translations[reaction[h].message]

\* the reaction of handler h came after its flag was accepted on its message,
\* and the loop has not run since
Repeats(h) ==
    reaction[h].repeat /\ Accepted(reaction[h].message, reaction[h].emoji)

\* C12: a reaction whose flag was accepted on the same message since the last
\* run of the loop is turned down by the cooldown check, whatever the multiple
\* and timeout of the message's state
C12_RepeatRejected ==
    [][\A h \in Handlers : (Checks(h) /\ Repeats(h)) => Rejects(h)]_vars

\* C13: when the tracked state of a message has multiple = False, the cooldown
\* check turns down every reaction on it, whatever the flag and the time
C13_SingleRejects ==
    [][\A h \in Handlers :
          (Checks(h) /\ Tracked(h) /\ ~StateOf(h).multiple) => Rejects(h)]_vars

\* a reaction with a flag not used on the message was turned down after the
\* wait of the message's state, which has multiple = False
C13_Witness ==
    \E h \in Handlers :
        /\ hpc[h] = "done" /\ reaction[h].outcome = "cooldown"
        /\ Tracked(h) /\ ~StateOf(h).multiple
        /\ reaction[h].emoji \notin Range(StateOf(h).past_flags)
        /\ StateOf(h).wait < time

\* C14: the cooldown check turns down a reaction on a tracked message while
\* the time is before the wait of the message's state
C14_WaitRejects ==
    [][\A h \in Handlers :
          (Checks(h) /\ Tracked(h) /\ time < StateOf(h).wait) => Rejects(h)]_vars

\* a reaction with a new flag was turned down before the wait of a state with
\* multiple = True
C14_Witness ==
    \E h \in Handlers :
        /\ hpc[h] = "done" /\ reaction[h].outcome = "cooldown"
        /\ Tracked(h) /\ StateOf(h).multiple
        /\ reaction[h].emoji \notin Range(StateOf(h).past_flags)
        /\ time < StateOf(h).wait

\* C15: on a message whose state has multiple = True and timeout 0, a reaction
\* with a flag not yet used passes the cooldown check at once, and when the
\* handler stores the state its wait is the time plus the timeout and the flag
\* is appended to its past flags
C15_OtherFlagAccepted ==
    [][\A h \in Handlers :
          /\ (/\ Checks(h) /\ Tracked(h)
              /\ StateOf(h).multiple /\ StateOf(h).timeout = 0
              /\ reaction[h].emoji \notin Range(StateOf(h).past_flags))
             => Passes(h)
          /\ (/\ Tracks(h) /\ Tracked(h)
              /\ StateOf(h).multiple /\ StateOf(h).timeout = 0)
             => /\ reaction'[h].accepted
                /\ StateOf(h)'.wait = time + StateOf(h)'.timeout
                /\ reaction[h].emoji \in Range(StateOf(h)'.past_flags)]_vars

\* two flags were accepted on a message at the same second, one after the other
C15_Witness ==
    \E h, k \in Handlers :
        /\ reaction[h].accepted /\ reaction[k].accepted
        /\ reaction[h].message = reaction[k].message
        /\ Tracked(h) /\ StateOf(h).multiple /\ StateOf(h).timeout = 0
        /\ StateOf(h).past_flags = <<reaction[k].emoji, reaction[h].emoji>>
        /\ reaction[h].emoji # reaction[k].emoji
        /\ StateOf(h).wait = time

\* C16: the multiple of a tracked message never changes, whatever the owner
\* sets afterwards, and a message tracked first when no command is under way
\* gets the multiple of the global cooldown of the config store
C16_MultipleFixed ==
    [][/\ \A m \in DOMAIN cooldown_translations :
             m \in DOMAIN cooldown_translations'
             => cooldown_translations'[m].multiple = cooldown_translations[m].multiple
       /\ \A h \in Handlers :
             (Tracks(h) /\ ~Tracked(h) /\ cmd \in {"idle", "done"})
             => StateOf(h)'.multiple = config_cooldown.multiple]_vars

\* an iteration of translation_loop starts in this step
LoopRuns ==
    /\ loop = "running" /\ save.pc = "idle"
    /\ save'.pc = "global" \/ loop' = "failed"

\* C17: every iteration of the loop drops the tracked state of every message
\* and every marker, so that the cooldown check lets through a reaction on a
\* message on which none was accepted since the loop last ran
C17_LoopClears ==
    [][/\ LoopRuns => (cooldown_translations' = EmptyDict /\ translations' = {})
       /\ \A h \in Handlers :
             (Checks(h) /\ \A k \in triggered : reaction[k].message # reaction[h].message)
             => Passes(h)]_vars

\* C18: between two iterations of the loop at most one reaction is accepted on
\* a message with a state of multiple = False
C18_OneAccepted ==
    \A m \in Messages :
        Cardinality({h \in triggered :
                        reaction[h].message = m /\ ~reaction[h].multiple}) <= 1

\* the counts the config store holds for guild g when the cog loads
StoredCount(g) == IF g \in StoredGuilds THEN PriorCount ELSE ZeroCount

\* the calls that have returned after add_detect / add_requests, for guild g
\* (for any guild when g is NoGuild)
Counted(g) ==
    {t \in Tasks : /\ pc[t] = "done" /\ call[t].response = "ok"
                   /\ g \in {NoGuild, call[t].guild}}

\* the sum of a field of the increments of a set of calls
RECURSIVE Added(_, _)
Added(ts, field) ==
    IF ts = {} THEN 0
    ELSE LET t == CHOOSE u \in ts : TRUE
             n == CASE field = "detect" -> IF call[t].op = "detect" THEN 1 ELSE 0
                    [] field = "requests" -> IF call[t].op = "translate" THEN 1 ELSE 0
                    [] field = "characters" ->
                          IF call[t].op = "translate" THEN Len(call[t].text) ELSE 0
         IN n + Added(ts \ {t}, field)

\* the counts loaded plus every increment of the calls that have returned
Expected(loaded, ts) ==
    [f \in DOMAIN loaded |-> loaded[f] + Added(ts, f)]

\* C19: the counts in memory of global and of every guild are those loaded
\* plus the increments of all the calls that have returned, under every
\* interleaving of the calls with each other and with the periodic save
C19_NoLostIncrement ==
    phase = "loaded"
    => /\ global_counter = Expected(PriorCount, Counted(NoGuild))
       /\ \A g \in DOMAIN guild_counter :
             guild_counter[g] = Expected(StoredCount(g), Counted(g))

\* C20: what save() writes for global and for a guild is the counts loaded
\* plus the increments of all the calls that have returned since
C20_SaveWritesSum ==
    [][/\ (save.pc = "global" /\ save'.pc # "global")
          => config_count' = Expected(PriorCount, Counted(NoGuild))
       /\ \A g \in Guilds :
             (/\ save.pc = "guild" /\ save.keys # <<>> /\ Head(save.keys) = g
              /\ save'.pc = "guild" /\ save'.keys = Tail(save.keys))
             => config_guild_count'[g] = Expected(StoredCount(g), Counted(g))]_vars

\* a step of save(): the write of global, or the next guild of its iteration
SaveStep == save.pc \in {"global", "guild"}

\* C21: a step of a save leaves the stored counts of every guild that is not
\* in memory as they were
C21_UntouchedKept ==
    [][SaveStep => \A g \in Guilds \ DOMAIN guild_counter :
                       config_guild_count'[g] = config_guild_count[g]]_vars

\* a save has written the counts of guild 1 and guild 2 was never loaded
C21_Witness ==
    /\ save.pc = "idle" /\ loop = "running"
    /\ config_guild_count[1] # StoredCount(1)
    /\ 2 \notin DOMAIN guild_counter
    /\ config_guild_count[2] = StoredCount(2)

\* the write of the guild at the head of the iteration has raised
FailedWrite ==
    /\ save.pc = "guild" /\ save.keys # <<>>
    /\ save'.pc \in {"idle", "raised"} /\ save'.keys = save.keys

\* C22: when the write of a guild raises after an earlier write of the same
\* save went through, the store keeps what the earlier writes put there and
\* the counts in memory of every scope are unchanged
C22_NoRollback ==
    [][FailedWrite => /\ config_count' = config_count
                      /\ config_guild_count' = config_guild_count
                      /\ global_counter' = global_counter
                      /\ guild_counter' = guild_counter]_vars

\* the write of guild 2 raised after that of guild 1: the store holds the
\* counts in memory of guild 1, and not those of guild 2
C22_Witness ==
    /\ save.pc = "raised" /\ save.keys = <<2>>
    /\ config_guild_count[1] = guild_counter[1]
    /\ config_guild_count[1] # StoredCount(1)
    /\ config_guild_count[2] # guild_counter[2]

\* C23: the stored counts change in the steps of a save only; the step of a
\* call that increments the counts in memory leaves them as they were
C23_StoreChangesInSave ==
    [][(config_count' # config_count \/ config_guild_count' # config_guild_count)
       => SaveStep]_vars

\* a call has incremented the counts in memory of global and of its guild, and
\* the store still holds the counts loaded
C23_Witness ==
    /\ \E t \in Tasks : pc[t] = "done" /\ call[t].response = "ok" /\ call[t].guild = 2
    /\ global_counter # PriorCount /\ config_count = PriorCount
    /\ guild_counter[2] # StoredCount(2) /\ config_guild_count[2] = StoredCount(2)

\* C24: the summary of a guild that is not in memory shows the counts the
\* config store holds for it, and no step of the summary changes a count in
\* memory or in the store
C24_SummaryFromStore ==
    [][/\ (summary.pc = "read_guild" /\ summary'.pc = "done")
          => summary'.count = Some(config_guild_count[summary.guild])
       /\ summary' # summary
          => UNCHANGED <<global_counter, guild_counter, config_count,
                         config_guild_count>>]_vars

\* a summary has shown counts of the store that are not zeros, for a guild
\* that was not in memory when it was asked for
C24_Witness ==
    /\ summary.pc = "done" /\ summary.stored
    /\ summary.count = Some(config_guild_count[summary.guild])
    /\ summary.count # Some(ZeroCount)

\* detect_language has returned this handler a language
Detected ==
    /\ event.stage # "idle" /\ pc[DetectTask] = "done"
    /\ call[DetectTask].result.kind = "return"
    /\ call[DetectTask].result.value # Nothing

\* C25: in each of the three handlers, once the language detected is the one
\* asked for, translate_text is not called and the handler ends on its
\* same-language return
C25_SameLanguageStops ==
    (Detected /\ call[DetectTask].result.value[1].language = event.to_language)
    => /\ call[TranslateTask].op = "none"
       /\ event.stage \in {"detecting", "done"}
       /\ event.stage = "done" => event.outcome = "same language"

\* the reaction handler has ended on the same-language return
C25_Witness ==
    /\ event.stage = "done" /\ event.kind = "reaction"
    /\ event.outcome = "same language"
    /\ Detected /\ call[DetectTask].result.value[1].language = "en"
    /\ event.to_language = "en"

\* C26: whatever the two requests answer, no exception of detect_language or
\* translate_text leaves the handler: a call that raised ends the handler on
\* its error return
C26_NoErrorPropagates ==
    /\ event.outcome # "raised"
    /\ \A t \in EventTasks :
          (event.stage = "done" /\ pc[t] = "done" /\ call[t].result.kind # "return")
          => event.outcome = "error"

\* the text command has answered an error the API reported for the translation
C26_Witness ==
    /\ event.stage = "done" /\ event.kind = "command" /\ event.outcome = "error"
    /\ call[TranslateTask].response = "error"

\* s contains sub
RECURSIVE HasSub(_, _)
HasSub(s, sub) ==
    /\ Len(s) >= Len(sub)
    /\ SubSeq(s, 1, Len(sub)) = sub \/ HasSub(SubSeq(s, 2, Len(s)), sub)

\* the source parameter of the request of a call of translate_text
SourceSent(t) == call[t].params[1].source

\* C28: the source parameter of every request of translate_text called with a
\* source language is that language without its "-Latn" suffix, and never
\* contains "-Latn"
C28_SourceStripped ==
    \A t \in CacheTasks :
       (call[t].op = "translate" /\ call[t].from_lang # None /\ call[t].params # Nothing)
       => /\ ~HasSub(SourceSent(t), "-Latn")
          /\ IF HasSub(call[t].from_lang, "-Latn")
             THEN SourceSent(t) \o "-Latn" = call[t].from_lang
             ELSE SourceSent(t) = call[t].from_lang

\* a request was sent for a text detected as "sr-Latn", with the source "sr"
C28_Witness ==
    /\ call[TranslateTask].op = "translate" /\ call[TranslateTask].from_lang = "sr-Latn"
    /\ call[TranslateTask].params # Nothing
    /\ SourceSent(TranslateTask) = "sr"

\* every entry of the cache is what a call that got a 200 response without an
\* error stored for its key
FromResponses(cache, op) ==
    \A i \in 1..Len(cache) :
       \E t \in Tasks :
          /\ call[t].op = op /\ Stored_(t)
          /\ CacheKey(call[t]) = cache[i].key
          /\ CacheValue(call[t]) = cache[i].value

\* task t is cancelled in this step
Cancels(t) == pc[t] # "done" /\ pc'[t] = "done" /\ call'[t].result = Cancelled

\* C27: with calls cancelled at any of their suspension points, every entry of
\* the two caches is the result of a successful response for its key, and the
\* cancellation itself changes no cache, no count in memory and no stored count
C27_CancelKeepsState ==
    /\ [](FromResponses(detection_cache, "detect")
          /\ FromResponses(translation_cache, "translate"))
    /\ [][\A t \in Tasks :
             Cancels(t) => UNCHANGED <<detection_cache, translation_cache,
                                       global_counter, guild_counter, config_count,
                                       config_guild_count>>]_vars

\* a call was cancelled in the config read of its counter update, after a 200
\* response, and the other call has its result in the cache
C27_Witness ==
    \E t, u \in Tasks :
       /\ pc[t] = "done" /\ call[t].result = Cancelled /\ call[t].data # Nothing
       /\ Stored_(u) /\ Contains(CacheOf(call[u]), CacheKey(call[u]))
       /\ ~Contains(CacheOf(call[t]), CacheKey(call[t]))

\* the code without a "-Latn" at its end
Suffixless(code) ==
    IF Len(code) >= 5 /\ SubSeq(code, Len(code) - 4, Len(code)) = "-Latn"
    THEN SubSeq(code, 1, Len(code) - 5)
    ELSE code

\* C29: the footer of an embed shows, for the source and for the target, the
\* name or the upper-cased code of the code without its "-Latn" suffix: it
\* never holds the suffix, and it is the footer of the codes without suffix
C29_FooterStripped ==
    embed.built
    => /\ embed.footer = Footer(Suffixless(embed.from_language),
                                Suffixless(embed.to_language), embed.named)
       /\ ~HasSub(Upper(embed.footer), "-LATN")

\* an embed was built from "sr-Latn" to "hi-Latn", when neither has a name:
\* the footer is that of "sr" to "hi"
C29_Witness ==
    /\ embed.built /\ embed.named = {}
    /\ embed.from_language = "sr-Latn" /\ embed.to_language = "hi-Latn"
    /\ embed.footer = "SR  ->  HI"

\* C30: once cog_unload has returned, with the counts saved and the session
\* closed, no iteration of translation_loop starts
C30_NoTickAfterUnload ==
    [][(phase = "unloaded" /\ closing.pc = "closed") => ~LoopRuns]_vars

Failures == {"non200", "exception", "error"}

\* the request of task t fails in this step
Fails(t) == pc[t] = "http" /\ pc'[t] = "done" /\ call'[t].response \in Failures

\* task t is back from a call whose request failed
Failed(t) == pc[t] = "done" /\ call[t].response \in Failures

\* u is a call of the same operation and key as t, started after t ended, no
\* call having stored a result for the key in between
NextWithKey(t, u) ==
    /\ u # t /\ pc[u] # "idle"
    /\ call[u].op = call[t].op /\ CacheKey(call[u]) = CacheKey(call[t])
    /\ call[u].started > call[t].ended
    /\ ~\E v \in Tasks : /\ Stored_(v) /\ call[v].op = call[t].op
                          /\ CacheKey(call[v]) = CacheKey(call[t])
                          /\ call[v].ended < call[u].started

\* C31: the step in which a request fails changes no cache and no count, in
\* memory or stored; and a later call with the key of a failed call misses the
\* cache and sends a request of its own (unless the token is missing by then)
C31_FailureNotCached ==
    /\ [][\A t \in Tasks :
             Fails(t) => UNCHANGED <<detection_cache, translation_cache, global_counter,
                                     guild_counter, config_count, config_guild_count>>]_vars
    /\ [](\A t, u \in Tasks :
             (Failed(t) /\ NextWithKey(t, u))
             => /\ ~call[u].hit
                /\ TokenRaised(u) \/ call[u].reqs = 1)

\* a call got a result from a request of its own after a call with the same
\* key had failed
C31_Witness ==
    \E t, u \in Tasks :
       /\ Failed(t) /\ NextWithKey(t, u)
       /\ Stored_(u) /\ call[u].reqs = 1

\* t is a translate_text call that stored its result before u started, for
\* the target, the fingerprint of the text and the source of u
StoredFor(t, u) ==
    /\ t # u /\ Stored_(t) /\ call[t].op = "translate"
    /\ call[t].ended < call[u].started
    /\ call[t].target = call[u].target
    /\ Hash(call[t].text) = Hash(call[u].text)
    /\ call[t].from_lang = call[u].from_lang

\* C32: a translate_text call that returns from the cache returns what a call
\* with the same target, text fingerprint and source has stored
C32_SameRequestOnly ==
    \A u \in Tasks :
       (pc[u] = "done" /\ call[u].op = "translate" /\ call[u].hit)
       => \E t \in Tasks : StoredFor(t, u) /\ call[u].result = call[t].result

\* a call returned from the cache, for a text that differs from the one of
\* the call that stored the entry and has its fingerprint
C32_Witness ==
    \E t, u \in Tasks :
       /\ pc[u] = "done" /\ call[u].op = "translate" /\ call[u].hit
       /\ StoredFor(t, u) /\ call[u].text # call[t].text

\* the event of handler h arrives in this step
Arrives(h) == hpc[h] = "idle" /\ hpc'[h] # "idle"

\* C35: a reaction that arrives on a message that is marked as translated ends
\* at once: the handler returns before any await, so no request is sent, and
\* the markers, the cooldown states and the counts are left as they are
C35_MarkedDropped ==
    [][\A h \in Handlers :
          (Arrives(h) /\ reaction'[h].message \in translations)
          => /\ hpc'[h] = "done" /\ reaction'[h].outcome = "ignored"
             /\ UNCHANGED <<translations, cooldown_translations, cache_cooldown,
                            config_cooldown, tvars>>]_vars

\* a reaction was dropped on a message marked after the reply to another
\* reaction, whose state has multiple = False, was sent
C35_Witness ==
    \E h, k \in Handlers :
       /\ h # k /\ api_token # None
       /\ hpc[k] = "done" /\ reaction[k].outcome = "sent" /\ ~reaction[k].multiple
       /\ hpc[h] = "done" /\ reaction[h].outcome = "ignored"
       /\ reaction[h].message = reaction[k].message
       /\ reaction[h].message \in translations

\* C36: a save that runs beside the calls goes through all the guilds that
\* were in memory when it started: no step of it ends the save with an error,
\* also when a call loads another guild into memory between two of its writes
C36_FlushCompletes ==
    [][SaveStep => /\ loop' # "failed"
                   /\ save'.pc = "idle" => save.keys = <<>>]_vars

\* detect_language has returned this handler None
Absent ==
    /\ event.stage # "idle" /\ pc[DetectTask] = "done"
    /\ call[DetectTask].result = Return(Nothing)

\* the handler has not called translate_text and ends on its no-result return
StopsOnAbsent ==
    /\ call[TranslateTask].op = "none"
    /\ event.stage = "done" => event.outcome = "no detection"

-----------------------------------------------------------------------------
(* The allow and block lists of a guild *)

\* the calls of check_bw_list that are followed
MaxChecks == 2

\* the ways a member and a channel come to check_bw_list: the channel in a
\* category or in none; the member with no roles attribute, with the default
\* role only, or with a role beside it
Categories == {NoId, CategoryId}
RoleSets == {{}, {DefaultRoleId}, {DefaultRoleId, RoleId}}

\* the lists the store can hold before the commands run
StoredLists == {<<>>} \cup {<<i>> : i \in ListIds}

\* list.remove(x): the list without the first x
RECURSIVE Removed(_, _)
Removed(list, x) ==
    IF list = <<>> THEN <<>>
    ELSE IF Head(list) = x THEN Tail(list)
    ELSE <<Head(list)>> \o Removed(Tail(list), x)

\* the tests of a list: channel.id, channel.category_id when there is one,
\* member.id and the id of every role of the member that is not the default
FoundIn(list, category, roles) ==
    \/ ChannelId \in Range(list)
    \/ category # NoId /\ category \in Range(list)
    \/ MemberId \in Range(list)
    \/ \E role \in roles : role # DefaultRoleId /\ role \in Range(list)

\* can_run with a block list that is consulted whatever the allow list holds
CanRun_BlockFirst(whitelist, blacklist, category, roles) ==
    /\ ~FoundIn(blacklist, category, roles)
    /\ whitelist # <<>> => FoundIn(whitelist, category, roles)

\* can_run of check_bw_list: with a whitelist, False unless a test of the
\* whitelist succeeds; with none, True unless a test of the blacklist succeeds
CanRun(whitelist, blacklist, category, roles) ==
    IF whitelist # <<>>
    THEN FoundIn(whitelist, category, roles)
    ELSE ~FoundIn(blacklist, category, roles)

\* the return of check_bw_list on the entries of the cache
Decide(white, black) ==
    check' = [check EXCEPT !.pc = "done",
                           !.can_run = CanRun(white[1], black[1], check.category,
                                              check.roles)]

\* check_bw_list is called: an entry of the cache that is missing is read from
\* the config store, the blacklist first
CheckStart(category, roles) ==
    /\ check.pc \in {"idle", "done"}
    /\ check.n < MaxChecks
    /\ LET started == [pc |-> "idle", category |-> category, roles |-> roles,
                       can_run |-> None, after |-> listcmd.pc = "done",
                       n |-> check.n + 1]
       IN  IF guild_blacklist = Nothing
           THEN check' = [started EXCEPT !.pc = "read_blacklist"]
           ELSE IF guild_whitelist = Nothing
           THEN check' = [started EXCEPT !.pc = "read_whitelist"]
           ELSE check' = [started EXCEPT
                             !.pc = "done",
                             !.can_run = CanRun(guild_whitelist[1], guild_blacklist[1],
                                                category, roles)]
    /\ UNCHANGED <<tvars, lvars, cvars, pvars, hvars, config_whitelist,
                   config_blacklist, guild_whitelist, guild_blacklist, listcmd>>

\* the stored blacklist arrives and becomes the entry of the cache
CheckReadBlacklist ==
    /\ check.pc = "read_blacklist"
    /\ guild_blacklist' = Some(config_blacklist)
    /\ IF guild_whitelist = Nothing
       THEN check' = [check EXCEPT !.pc = "read_whitelist"]
       ELSE Decide(guild_whitelist, guild_blacklist')
    /\ UNCHANGED <<tvars, lvars, cvars, pvars, hvars, config_whitelist,
                   config_blacklist, guild_whitelist, listcmd>>

\* the stored whitelist arrives and becomes the entry of the cache
CheckReadWhitelist ==
    /\ check.pc = "read_whitelist"
    /\ guild_whitelist' = Some(config_whitelist)
    /\ Decide(guild_whitelist', guild_blacklist)
    /\ UNCHANGED <<tvars, lvars, cvars, pvars, hvars, config_whitelist,
                   config_blacklist, guild_blacklist, listcmd>>

\* the list a command works on, as the config store holds it
StoredList(list) == IF list = "whitelist" THEN config_whitelist ELSE config_blacklist

\* an add or remove command of a list is invoked with one object
ListStart(list, op, obj) ==
    /\ listcmd.pc = "idle"
    /\ listcmd' = [pc |-> "read", list |-> list, op |-> op, obj |-> obj]
    /\ UNCHANGED <<tvars, lvars, cvars, pvars, hvars, config_whitelist,
                   config_blacklist, guild_whitelist, guild_blacklist, check>>

\* the stored list arrives: add goes on when the id is not in it, remove when
\* it is; otherwise the command sends its message
ListRead ==
    /\ listcmd.pc = "read"
    /\ LET found == listcmd.obj \in Range(StoredList(listcmd.list))
       IN  IF (listcmd.op = "add") = ~found
           THEN listcmd' = [listcmd EXCEPT !.pc = "write"]
           ELSE listcmd' = [listcmd EXCEPT !.pc = "done"]
    /\ UNCHANGED <<tvars, lvars, cvars, pvars, hvars, config_whitelist,
                   config_blacklist, guild_whitelist, guild_blacklist, check>>

\* the stored list is taken, appended to or removed from, and written back;
\* the command sends its message
ListWrite ==
    /\ listcmd.pc = "write"
    /\ LET stored == StoredList(listcmd.list)
           written == IF listcmd.op = "add" THEN Append(stored, listcmd.obj)
                      ELSE Removed(stored, listcmd.obj)
       IN  /\ config_whitelist' =
                  IF listcmd.list = "whitelist" THEN written ELSE config_whitelist
           /\ config_blacklist' =
                  IF listcmd.list = "blacklist" THEN written ELSE config_blacklist
    /\ listcmd' = [listcmd EXCEPT !.pc = "done"]
    /\ UNCHANGED <<tvars, lvars, cvars, pvars, hvars, guild_whitelist,
                   guild_blacklist, check>>

NextLists ==
    \/ \E category \in Categories, roles \in RoleSets : CheckStart(category, roles)
    \/ CheckReadBlacklist
    \/ CheckReadWhitelist
    \/ \E list \in {"whitelist", "blacklist"}, op \in {"add", "remove"}, obj \in ListIds :
           ListStart(list, op, obj)
    \/ ListRead
    \/ ListWrite

\* a guild with any stored lists
InitGuildLists ==
    /\ InitTranslator /\ InitLanguage /\ InitCooldown /\ InitLoop /\ InitViews
    /\ \E whitelist \in StoredLists, blacklist \in StoredLists :
           InitListsWith(whitelist, blacklist)

SpecLists == InitGuildLists /\ [][NextLists]_vars

\* a call of check_bw_list returns in this step
Returns == check'.pc = "done" /\ (check.pc # "done" \/ check'.n # check.n)

\* C33: after an add or remove command of a list has completed, every later
\* permission check decides on the list as the command left it, also when
\* a check of the guild was made before the change
C33_DecidesOnUpdatedList ==
    [][Returns /\ check'.after =>
           check'.can_run = CanRun(config_whitelist', config_blacklist',
                                   check'.category, check'.roles)]_vars

\* what the claim tests against a list: the channel, its category, the member
\* and the roles of the member that are not the default role
Those == {ChannelId, MemberId}
             \cup (IF check.category = NoId THEN {} ELSE {check.category})
             \cup (check.roles \ {DefaultRoleId})

\* C34: with an allow list that is not empty the result is true exactly when
\* the channel, its category, the member or one of the member's non-default
\* roles is in it, whatever the block list holds; with an empty allow list the
\* result is false exactly when one of those is in the block list
C34_ListRule ==
    check.pc = "done" =>
        LET allowlist == guild_whitelist[1]
            blocklist == guild_blacklist[1]
        IN  /\ allowlist # <<>> =>
                   (check.can_run = TRUE <=> Those \cap Range(allowlist) # {})
            /\ allowlist = <<>> =>
                   (check.can_run = FALSE <=> Those \cap Range(blocklist) # {})

\* a check has allowed a member who is on the allow list in a channel that is
\* on the block list
C34_Witness ==
    /\ check.pc = "done"
    /\ check.can_run = TRUE
    /\ MemberId \in Range(guild_whitelist[1])
    /\ ChannelId \in Range(guild_blacklist[1])

====
